---- MODULE Spec2Model ----
(***************************************************************************)
(* A model of the NeuralNetwork class of marijoAI                          *)
(* (src/unnamed/part_002): construction, forward inference, save/load      *)
(* and the asynchronous training loop with Adam and early stopping.        *)
(*                                                                         *)
(* Numbers.  JavaScript numbers are modelled on a fixed-point grid: the    *)
(* integer v stands for the real v / SCALE.  Products and quotients are    *)
(* rounded to the grid, Math.exp / Math.log / Math.sqrt are evaluated on   *)
(* the grid.  NaN, Infinity and null are three values outside the range    *)
(* the arithmetic can reach; every arithmetic operator propagates NaN as   *)
(* IEEE-754 does, and reading an array past its end (undefined) gives NaN  *)
(* once it is used in arithmetic.                                          *)
(*                                                                         *)
(* Objects.  Arrays that the code shares by reference (weights, biases)    *)
(* live in `heap`; a network or a saved model holds references into it.    *)
(***************************************************************************)
EXTENDS Integers, Sequences, FiniteSets, TLC

\* ------------------------------------------------------------------------
\* Bounds of the model
\* ------------------------------------------------------------------------
MaxEpochs == 3     \* largest `epochs` a train() call is given
MaxNets == 2       \* networks alive at once (the constructed one, loaded ones)
MaxSnaps == 1      \* saved-model objects alive at once
MaxSteps == 2      \* direct applyAdamUpdate calls on one network
MaxIndices == 4    \* largest training set whose batches are listed
MaxBatchSize == 5  \* largest batchSize whose batches are listed

\* ------------------------------------------------------------------------
\* Numbers
\* ------------------------------------------------------------------------
SCALE == 8
NaN == -1000000
Infinity == 1000000
Null == -2000000

One == SCALE
Half == SCALE \div 2

IsNaN(x) == x = NaN

\* n / d rounded to the nearest integer, d > 0
RoundDiv(n, d) == (2 * n + d) \div (2 * d)

NAdd(a, b) == IF a = NaN \/ b = NaN THEN NaN ELSE a + b
NSub(a, b) == IF a = NaN \/ b = NaN THEN NaN ELSE a - b
NNeg(a) == IF a = NaN THEN NaN ELSE 0 - a
NMul(a, b) == IF a = NaN \/ b = NaN THEN NaN ELSE RoundDiv(a * b, SCALE)
\* a / b for grid values; 0/0 is NaN, x/0 is +-Infinity
NDiv(a, b) ==
    IF a = NaN \/ b = NaN THEN NaN
    ELSE IF b = 0 THEN (IF a = 0 THEN NaN ELSE IF a > 0 THEN Infinity ELSE 0 - Infinity)
    ELSE IF b > 0 THEN RoundDiv(a * SCALE, b)
    ELSE 0 - RoundDiv(a * SCALE, 0 - b)
\* a / n for a plain count n > 0 (a batch size, a number of batches)
NDivCount(a, n) ==
    IF a = NaN THEN NaN
    ELSE IF n = 0 THEN (IF a > 0 THEN Infinity ELSE NaN)
    ELSE RoundDiv(a, n)
\* a < b and a > b as JavaScript evaluates them: false when either is NaN
NLt(a, b) == a # NaN /\ b # NaN /\ a < b
NGt(a, b) == a # NaN /\ b # NaN /\ a > b

\* Math.sqrt on the grid
Sqrt(x) ==
    IF x = NaN \/ x < 0 THEN NaN
    ELSE CHOOSE r \in 0..(x * SCALE) : r * r <= x * SCALE /\ (r + 1) * (r + 1) > x * SCALE

\* Math.log on the grid, for 0 < p <= 1: SCALE * ln(p / SCALE), rounded
LogTable == <<-17, -11, -8, -6, -4, -2, -1, 0>>
Log(p) == IF p = NaN THEN NaN ELSE IF p < 1 \/ p > SCALE THEN NaN ELSE LogTable[p]

\* Math.pow(b, t) for a count t >= 0
RECURSIVE Pow(_, _)
Pow(b, t) == IF t = 0 THEN One ELSE NMul(b, Pow(b, t - 1))

Max2(a, b) == IF a >= b THEN a ELSE b
Min2(a, b) == IF a <= b THEN a ELSE b

\* x[i] for a 1-based position i of a JavaScript array: undefined (NaN in
\* arithmetic) outside the array
At(x, i) == IF i \in 1..Len(x) THEN x[i] ELSE NaN

\* The array with the elements of f, built element by element
Array(f) == f \o <<>>

\* ------------------------------------------------------------------------
\* Activation functions and their derivatives
\* ------------------------------------------------------------------------
Activations == {"relu", "sigmoid", "linear"}

\* Math.max(0, x)
relu(x) == IF x = NaN THEN NaN ELSE Max2(0, x)

\* 1 / (1 + Math.exp(-x)) on the grid: 1/2 at 0, slope 1/4 there, in [0, 1]
sigmoid(x) == IF x = NaN THEN NaN ELSE Max2(0, Min2(One, Half + RoundDiv(x, 4)))

applyActivationScalar(v, activation) ==
    CASE activation = "relu" -> relu(v)
      [] activation = "sigmoid" -> sigmoid(v)
      [] OTHER -> v

\* applyActivation(x, activation) for an array x
applyActivation(x, activation) ==
    Array([i \in 1..Len(x) |-> applyActivationScalar(x[i], activation)])

\* s * (1 - s) for s = sigmoid(z)
sigmoidSlope(s) == NMul(s, NSub(One, s))

activationDerivativeScalar(activation, z) ==
    CASE activation = "relu" -> (IF NGt(z, 0) THEN One ELSE 0)
      [] activation = "sigmoid" -> sigmoidSlope(sigmoid(z))
      [] OTHER -> One

\* activationDerivative(activation, z) for an array z
activationDerivative(activation, z) ==
    Array([i \in 1..Len(z) |-> activationDerivativeScalar(activation, z[i])])

\* ------------------------------------------------------------------------
\* JavaScript values handed to the network
\* ------------------------------------------------------------------------
\* An input sample: an array of numbers, or a value that is not an array
Vec(v) == [isArray |-> TRUE, v |-> v]
NotArray == [isArray |-> FALSE, v |-> <<>>]

\* The result of a call: the value returned, or the exception thrown
Returned(v) == [threw |-> FALSE, value |-> v]
Threw == [threw |-> TRUE, value |-> <<>>]

\* ------------------------------------------------------------------------
\* The network: layers, weights, biases
\* ------------------------------------------------------------------------
\* The layer list initializeNetwork builds from config.architecture
layersOf(config) ==
    <<[type |-> "input", units |-> config.architecture.inputLayer.units,
       activation |-> "linear"]>>
    \o Array([i \in 1..Len(config.architecture.hiddenLayers) |->
          [type |-> "hidden", units |-> config.architecture.hiddenLayers[i].units,
           activation |-> config.architecture.hiddenLayers[i].activation]])
    \o <<[type |-> "output", units |-> config.architecture.outputLayer.units,
          activation |-> config.architecture.outputLayer.activation]>>

\* Values (Math.random() * 2 - 1) * limit can take on the grid, for
\* limit = sqrt(6 / (unitsIn + unitsOut)): those w with w^2 < limit^2
WeightGrid == {0 - Half, Half}
xavierValues(unitsIn, unitsOut) ==
    {w \in WeightGrid : w * w * (unitsIn + unitsOut) < 6 * SCALE * SCALE}

\* The weight matrices initializeNetwork may draw for layers i, i+1, ...:
\* matrix i has units(i+1) rows of units(i) random entries
RECURSIVE randomWeights(_, _)
randomWeights(layers, i) ==
    IF i > Len(layers) - 1 THEN {<<>>}
    ELSE {<<m>> \o rest :
            m \in [1..layers[i + 1].units ->
                     [1..layers[i].units ->
                        xavierValues(layers[i].units, layers[i + 1].units)]],
            rest \in randomWeights(layers, i + 1)}

\* Bias vectors sized by the layer the weights come from
zeroBiasesByInput(layers) ==
    Array([i \in 1..(Len(layers) - 1) |-> Array([j \in 1..layers[i].units |-> 0])])

\* The bias vectors initializeNetwork builds: units(i+1) zeros per layer
zeroBiases(layers) ==
    Array([i \in 1..(Len(layers) - 1) |-> Array([j \in 1..layers[i + 1].units |-> 0])])

NoOptimizerState == [present |-> FALSE, t |-> 0, mW |-> <<>>, vW |-> <<>>,
                     mB |-> <<>>, vB |-> <<>>]

\* new NeuralNetwork(config): the object, its weights array at heap address
\* wRef and its biases array at heap address bRef
NeuralNetwork(config, wRef, bRef) ==
    [config |-> config, layers |-> layersOf(config), weights |-> wRef,
     biases |-> bRef, optimizerState |-> NoOptimizerState]

\* ------------------------------------------------------------------------
\* Forward pass
\* ------------------------------------------------------------------------
\* sum += activations[k] * row[k] for k = from .. activations.length
RECURSIVE weightedSum(_, _, _, _)
weightedSum(sum, activations, row, k) ==
    IF k > Len(activations) THEN sum
    ELSE weightedSum(NAdd(sum, NMul(activations[k], At(row, k))), activations, row, k + 1)

\* The pre-activations of weight layer i for the incoming activations
layerZ(W, B, i, activations) ==
    Array([j \in 1..Len(W[i]) |-> weightedSum(At(B[i], j), activations, W[i][j], 1)])

\* The loop of forward() from weight layer i on
RECURSIVE forwardFrom(_, _, _, _, _)
forwardFrom(W, B, layers, activations, i) ==
    IF i > Len(W) THEN activations
    ELSE forwardFrom(W, B, layers,
                     applyActivation(layerZ(W, B, i, activations), layers[i + 1].activation),
                     i + 1)

\* forward(input)
forward(W, B, layers, input) ==
    IF ~input.isArray THEN Threw
    ELSE Returned(forwardFrom(W, B, layers, input.v, 1))

\* The cache after a layer with pre-activations z and activations aNext;
\* the last layer's activations are not another layer's inputs
cacheWith(cache, z, aNext, last) ==
    [output |-> aNext,
     layerInputs |-> IF last THEN cache.layerInputs ELSE Append(cache.layerInputs, aNext),
     layerZs |-> Append(cache.layerZs, z),
     layerActivations |-> Append(cache.layerActivations, aNext)]

\* A cache that keeps the pre-activations of a layer as its activations
cacheLayerWithoutActivation(layers, cache, i, z, last) ==
    cacheWith(cache, z, z, last)

\* The cache after weight layer i, given its pre-activations z
cacheLayer(layers, cache, i, z, last) ==
    cacheWith(cache, z, applyActivation(z, layers[i + 1].activation), last)

\* The loop of forwardWithCache() from weight layer i on; cache holds
\* output, layerInputs, layerZs, layerActivations
RECURSIVE forwardCacheFrom(_, _, _, _, _)
forwardCacheFrom(W, B, layers, cache, i) ==
    IF i > Len(W) THEN cache
    ELSE forwardCacheFrom(W, B, layers,
            cacheLayer(layers, cache, i, layerZ(W, B, i, cache.output), i = Len(W)),
            i + 1)

\* forwardWithCache(input)
forwardWithCache(W, B, layers, input) ==
    IF ~input.isArray THEN Threw
    ELSE Returned(forwardCacheFrom(W, B, layers,
                    [output |-> input.v, layerInputs |-> <<input.v>>,
                     layerZs |-> <<>>, layerActivations |-> <<>>], 1))

\* The result of predict(): for a batch, one output per sample
PredictReturned(batch, outs) == [threw |-> FALSE, batch |-> batch, outs |-> outs]
PredictThrew == [threw |-> TRUE, batch |-> FALSE, outs |-> <<>>]

\* predict(x) for a batch, from the results of forward() on its samples
predictBatch(outs) ==
    IF \E i \in 1..Len(outs) : outs[i].threw THEN PredictThrew
    ELSE PredictReturned(TRUE, Array([i \in 1..Len(outs) |-> outs[i].value]))

\* predict(x) for one sample, from the result of forward() on it
predictOne(out1) ==
    IF out1.threw THEN PredictThrew ELSE PredictReturned(FALSE, <<out1.value>>)

\* A predict() that takes every argument for one sample
predictFirstOnly(W, B, layers, x) ==
    predictOne(forward(W, B, layers, x.items[1]))

\* predict(x): x.batch says whether x[0] is itself an array; then x.items
\* are the samples, else x.items[1] is the one sample
predict(W, B, layers, x) ==
    IF x.batch
    THEN predictBatch(Array([i \in 1..Len(x.items) |-> forward(W, B, layers, x.items[i])]))
    ELSE predictOne(forward(W, B, layers, x.items[1]))

\* save(): the saved object holds the network's own arrays
save(network) ==
    [config |-> network.config, weights |-> network.weights,
     biases |-> network.biases, layers |-> network.layers]

\* A load() that leaves the new network on its freshly drawn arrays
loadKeepingFresh(modelData, wRef, bRef) ==
    [NeuralNetwork(modelData.config, wRef, bRef) EXCEPT !.layers = modelData.layers]

\* NeuralNetwork.load(modelData): a new network built from modelData.config
\* (its freshly drawn arrays at wRef, bRef are dropped), then pointed at the
\* arrays and layers of modelData
load(modelData, wRef, bRef) ==
    [NeuralNetwork(modelData.config, wRef, bRef) EXCEPT
        !.weights = modelData.weights,
        !.biases = modelData.biases,
        !.layers = modelData.layers]

\* ------------------------------------------------------------------------
\* Adam
\* ------------------------------------------------------------------------
zerosLikeW(W) == Array([wi \in 1..Len(W) |-> Array([r \in 1..Len(W[wi]) |->
                    Array([c \in 1..Len(W[wi][r]) |-> 0])])])
zerosLikeB(W) == Array([wi \in 1..Len(W) |-> Array([r \in 1..Len(W[wi]) |-> 0])])

\* initializeOptimizerState()
initializeOptimizerState(W) ==
    [present |-> TRUE, t |-> 0, mW |-> zerosLikeW(W), vW |-> zerosLikeW(W),
     mB |-> zerosLikeB(W), vB |-> zerosLikeB(W)]

\* The first and second moment after one step with gradient g
adamM(m, g, beta1) == NAdd(NMul(beta1, m), NMul(NSub(One, beta1), g))
adamV(v, g, beta2) == NAdd(NMul(beta2, v), NMul(NSub(One, beta2), NMul(g, g)))
\* A parameter step that leaves epsilon out of the denominator
adamParamNoEpsilon(p, mHat, vHat, lrT, epsilon) ==
    NSub(p, NMul(lrT, NDiv(mHat, Sqrt(vHat))))
\* The parameter after the step: p - lrT * (mHat / (sqrt(vHat) + epsilon))
adamParam(p, mHat, vHat, lrT, epsilon) ==
    NSub(p, NMul(lrT, NDiv(mHat, NAdd(Sqrt(vHat), epsilon))))

\* lrT = learningRate * sqrt(biasCorr2) / (biasCorr1 || 1e-12), with the
\* smallest positive grid value for 1e-12
adamLrT(learningRate, biasCorr1, biasCorr2) ==
    NDiv(NMul(learningRate, Sqrt(biasCorr2)),
         IF biasCorr1 = 0 \/ biasCorr1 = NaN THEN 1 ELSE biasCorr1)

\* The parameters after the step, given the updated moments
adamStep(W, B, t, mW, vW, mB, vB, lrT, epsilon) ==
    [weights |-> Array([wi \in 1..Len(W) |-> Array([r \in 1..Len(W[wi]) |->
                    Array([c \in 1..Len(W[wi][r]) |->
                       adamParam(W[wi][r][c], mW[wi][r][c], vW[wi][r][c], lrT, epsilon)])])]),
     biases |-> Array([wi \in 1..Len(W) |-> Array([r \in 1..Len(W[wi]) |->
                    adamParam(B[wi][r], mB[wi][r], vB[wi][r], lrT, epsilon)])]),
     optimizerState |-> [present |-> TRUE, t |-> t, mW |-> mW, vW |-> vW,
                         mB |-> mB, vB |-> vB]]

\* The step on an initialized optimizer state opt: t += 1, the moments for
\* the gradients g = grad * invBatch, then the parameters
adamUpdate(W, B, opt, gradWeights, gradBiases, learningRate, invBatch, beta1, beta2, epsilon) ==
    adamStep(W, B, opt.t + 1,
        Array([wi \in 1..Len(W) |-> Array([r \in 1..Len(W[wi]) |->
            Array([c \in 1..Len(W[wi][r]) |->
               adamM(opt.mW[wi][r][c], NMul(gradWeights[wi][r][c], invBatch), beta1)])])]),
        Array([wi \in 1..Len(W) |-> Array([r \in 1..Len(W[wi]) |->
            Array([c \in 1..Len(W[wi][r]) |->
               adamV(opt.vW[wi][r][c], NMul(gradWeights[wi][r][c], invBatch), beta2)])])]),
        Array([wi \in 1..Len(W) |-> Array([r \in 1..Len(W[wi]) |->
            adamM(opt.mB[wi][r], NMul(gradBiases[wi][r], invBatch), beta1)])]),
        Array([wi \in 1..Len(W) |-> Array([r \in 1..Len(W[wi]) |->
            adamV(opt.vB[wi][r], NMul(gradBiases[wi][r], invBatch), beta2)])]),
        adamLrT(learningRate, NSub(One, Pow(beta1, opt.t + 1)),
                NSub(One, Pow(beta2, opt.t + 1))),
        epsilon)

\* An update that advances the step counter twice
applyAdamUpdateCountingTwice(W, B, opt0, gradWeights, gradBiases, learningRate, invBatch, beta1, beta2, epsilon) ==
    [adamUpdate(W, B, IF opt0.present THEN opt0 ELSE initializeOptimizerState(W),
                gradWeights, gradBiases, learningRate, invBatch, beta1, beta2, epsilon)
        EXCEPT !.optimizerState.t = @ + 1]

\* applyAdamUpdate(gradWeights, gradBiases, learningRate, invBatch, beta1,
\* beta2, epsilon) on weights W, biases B and optimizer state opt0
applyAdamUpdate(W, B, opt0, gradWeights, gradBiases, learningRate, invBatch, beta1, beta2, epsilon) ==
    adamUpdate(W, B, IF opt0.present THEN opt0 ELSE initializeOptimizerState(W),
               gradWeights, gradBiases, learningRate, invBatch, beta1, beta2, epsilon)

\* ------------------------------------------------------------------------
\* Loss and accuracy
\* ------------------------------------------------------------------------
\* A label: a number, or an array of numbers
Num(n) == [isArray |-> FALSE, v |-> <<n>>]
Arr(v) == [isArray |-> TRUE, v |-> v]
\* Array.isArray(y) ? y[0] : y
firstOf(y) == At(y.v, 1)

\* Math.max(epsilon, Math.min(1 - epsilon, p)), epsilon the grid's 1e-15
clip(p) == IF p = NaN THEN NaN ELSE Max2(1, Min2(SCALE - 1, p))

binaryCrossentropy(yTrue, yPred) ==
    IF yTrue = NaN \/ yPred = NaN THEN NaN
    ELSE NNeg(NAdd(NMul(yTrue, Log(clip(yPred))),
                   NMul(NSub(One, yTrue), Log(NSub(One, clip(yPred))))))

\* loss -= yTrue[i] * Math.log(pred) for i = from .. yTrue.length
RECURSIVE categoricalFrom(_, _, _, _)
categoricalFrom(loss, yTrue, yPred, i) ==
    IF i > Len(yTrue) THEN loss
    ELSE categoricalFrom(NSub(loss, NMul(yTrue[i], Log(clip(At(yPred, i))))),
                         yTrue, yPred, i + 1)

\* yTrue.length is undefined for a number: the loop does not run
categoricalCrossentropy(yTrue, yPred) ==
    IF yTrue.isArray THEN categoricalFrom(0, yTrue.v, yPred, 1) ELSE 0

meanSquaredError(yTrue, yPred) == NMul(NSub(yTrue, yPred), NSub(yTrue, yPred))

\* calculateLoss(yTrue, yPred) under the network's config
calculateLoss(config, yTrue, yPred) ==
    CASE config.trainingConfig.loss = "binaryCrossentropy" ->
            binaryCrossentropy(firstOf(yTrue), At(yPred, 1))
      [] config.trainingConfig.loss = "categoricalCrossentropy" ->
            categoricalCrossentropy(yTrue, yPred)
      [] OTHER -> meanSquaredError(firstOf(yTrue), At(yPred, 1))

\* The index of the first largest element of v (1 for an empty v)
RECURSIVE argmaxFrom(_, _, _)
argmaxFrom(v, best, i) ==
    IF i > Len(v) THEN best
    ELSE argmaxFrom(v, IF NGt(v[i], At(v, best)) THEN i ELSE best, i + 1)

\* predicted === trueValue ? 1 : 0
binaryAccuracy(predicted, trueValue) == IF predicted = trueValue THEN One ELSE 0

\* calculateAccuracy(yTrue, yPred)
calculateAccuracy(yTrue, yPred) ==
    IF Len(yPred) > 1
    THEN IF argmaxFrom(yPred, 1, 2) =
            (IF yTrue.isArray THEN argmaxFrom(yTrue.v, 1, 2) ELSE 1)
         THEN One ELSE 0
    ELSE binaryAccuracy(IF NGt(At(yPred, 1), Half) THEN One ELSE 0, firstOf(yTrue))

\* ------------------------------------------------------------------------
\* Backpropagation for one sample (the body of the loop over a batch)
\* ------------------------------------------------------------------------
\* A delta for sigmoid with binary cross-entropy that gives every output
\* unit the difference of unit 0
outputDeltaBCEAllUnits(units, yPredVal, yTrueVal) ==
    Array([ii \in 1..units |-> NSub(yPredVal, yTrueVal)])

\* The output-layer delta for sigmoid with binary cross-entropy:
\* yPredVal - yTrueVal on unit 0, 0 on the others
outputDeltaBCE(units, yPredVal, yTrueVal) ==
    Array([ii \in 1..units |-> IF ii = 1 THEN NSub(yPredVal, yTrueVal) ELSE 0])

\* The output-layer delta otherwise: the error times the activation's
\* derivative
outputDeltaGeneric(units, prediction, y, actDer) ==
    Array([ii \in 1..units |->
        NMul(IF y.isArray THEN NSub(At(prediction, ii), At(y.v, ii))
             ELSE NSub(At(prediction, 1), firstOf(y)),
             At(actDer, ii))])

\* An output-layer delta that always takes the chain-rule branch
outputDeltaChainRule(W, layers, netConfig, trainConfig, cache, y) ==
    outputDeltaGeneric(Len(W[Len(W)]), cache.output, y,
        activationDerivative(layers[Len(layers)].activation, cache.layerZs[Len(W)]))

\* The output-layer delta
outputDelta(W, layers, netConfig, trainConfig, cache, y) ==
    IF layers[Len(layers)].activation = "sigmoid"
       /\ (trainConfig.loss = "binaryCrossentropy"
           \/ netConfig.trainingConfig.loss = "binaryCrossentropy")
    THEN outputDeltaBCE(Len(W[Len(W)]), At(cache.output, 1), firstOf(y))
    ELSE outputDeltaGeneric(Len(W[Len(W)]), cache.output, y,
            activationDerivative(layers[Len(layers)].activation, cache.layerZs[Len(W)]))

\* sumVal += currentWeights[m][k] * currentDelta[m] for m = from .. rows
RECURSIVE deltaSum(_, _, _, _, _)
deltaSum(sumVal, currentWeights, currentDelta, k, m) ==
    IF m > Len(currentWeights) THEN sumVal
    ELSE deltaSum(NAdd(sumVal, NMul(At(currentWeights[m], k), At(currentDelta, m))),
                  currentWeights, currentDelta, k, m + 1)

\* The delta of weight layer li from the delta of the layer above it
hiddenDelta(W, li, currentDelta, prevActDer) ==
    Array([k \in 1..Len(W[li]) |->
        NMul(deltaSum(0, W[li + 1], currentDelta, k, 1), At(prevActDer, k))])

\* The deltas of weight layers li .. last, given those of li + 1 .. last
RECURSIVE hiddenDeltas(_, _, _, _, _)
hiddenDeltas(W, layers, cache, li, deltasAbove) ==
    IF li < 1 THEN deltasAbove
    ELSE hiddenDeltas(W, layers, cache, li - 1,
            <<hiddenDelta(W, li, deltasAbove[1],
                  activationDerivative(layers[li + 1].activation, cache.layerZs[li]))>>
            \o deltasAbove)

\* The activations feeding weight layer gi
aPrev(cache, gi) ==
    IF gi = 1 THEN cache.layerInputs[1] ELSE cache.layerActivations[gi - 1]

\* Loss and accuracy of the sample, and its gradients accumulated onto
\* gradWeights, gradBiases
accumulate(W, netConfig, cache, y, deltas, gradWeights, gradBiases) ==
    [threw |-> FALSE,
     loss |-> calculateLoss(netConfig, y, cache.output),
     accuracy |-> calculateAccuracy(y, cache.output),
     gradWeights |-> Array([gi \in 1..Len(W) |-> Array([r \in 1..Len(W[gi]) |->
         Array([c \in 1..Len(W[gi][r]) |->
            NAdd(gradWeights[gi][r][c],
                 NMul(deltas[gi][r], At(aPrev(cache, gi), c)))])])]),
     gradBiases |-> Array([gi \in 1..Len(W) |-> Array([r \in 1..Len(W[gi]) |->
         NAdd(gradBiases[gi][r], deltas[gi][r])])])]

\* The sample's step once forwardWithCache() has returned or thrown
backpropagate(W, layers, netConfig, trainConfig, fwd, y, gradWeights, gradBiases) ==
    IF fwd.threw
    THEN [threw |-> TRUE, loss |-> 0, accuracy |-> 0,
          gradWeights |-> gradWeights, gradBiases |-> gradBiases]
    ELSE accumulate(W, netConfig, fwd.value, y,
            hiddenDeltas(W, layers, fwd.value, Len(W) - 1,
                <<outputDelta(W, layers, netConfig, trainConfig, fwd.value, y)>>),
            gradWeights, gradBiases)

\* One sample of a batch: forward with cache, loss, accuracy, deltas, and
\* the gradients accumulated onto gradWeights, gradBiases
sampleStep(W, B, layers, netConfig, trainConfig, x, y, gradWeights, gradBiases) ==
    backpropagate(W, layers, netConfig, trainConfig, forwardWithCache(W, B, layers, x),
                  y, gradWeights, gradBiases)

\* ------------------------------------------------------------------------
\* One epoch of train(): shuffle, batches, validation
\* ------------------------------------------------------------------------
\* An array argument of train(): an array of items, or not an array
Items(items) == [isArray |-> TRUE, items |-> items]
NotArrayArg == [isArray |-> FALSE, items |-> <<>>]

\* y[i] of a label array: undefined past its end
labelAt(items, i) == IF i \in 1..Len(items) THEN items[i] ELSE Num(NaN)

\* The draws Math.floor(Math.random() * (i + 1)) of shuffleArray on an
\* array of n elements: for each position i = n .. 2 a position 1 .. i
ShuffleDraws(n) == [2..n -> 1..n]
validDraws(draws, n) == \A i \in 2..n : draws[i] <= i

\* A Fisher-Yates loop that copies element j to position i without
\* putting element i at position j
RECURSIVE shuffleFromCopying(_, _, _)
shuffleFromCopying(shuffled, draws, i) ==
    IF i < 2 THEN shuffled
    ELSE shuffleFromCopying([shuffled EXCEPT ![i] = shuffled[draws[i]]], draws, i - 1)

\* The Fisher-Yates loop of shuffleArray from position i down
RECURSIVE shuffleFrom(_, _, _)
shuffleFrom(shuffled, draws, i) ==
    IF i < 2 THEN shuffled
    ELSE shuffleFrom([shuffled EXCEPT ![i] = shuffled[draws[i]],
                                      ![draws[i]] = shuffled[i]],
                     draws, i - 1)

\* shuffleArray(array) for the draws of this call
shuffleArray(array, draws) == shuffleFrom(array, draws, Len(array))

\* A batch loop that gives up at a sample whose loss is NaN
batchAccStoppingAtNaN(acc, st) ==
    IF st.threw \/ IsNaN(st.loss) THEN [acc EXCEPT !.threw = TRUE]
    ELSE [threw |-> FALSE, j |-> acc.j + 1,
          batchLoss |-> NAdd(acc.batchLoss, st.loss),
          batchAccuracy |-> NAdd(acc.batchAccuracy, st.accuracy),
          gradWeights |-> st.gradWeights, gradBiases |-> st.gradBiases]

\* The batch's sums and gradients after the sample step st
batchAcc(acc, st) ==
    IF st.threw THEN [acc EXCEPT !.threw = TRUE]
    ELSE [threw |-> FALSE, j |-> acc.j + 1,
          batchLoss |-> NAdd(acc.batchLoss, st.loss),
          batchAccuracy |-> NAdd(acc.batchAccuracy, st.accuracy),
          gradWeights |-> st.gradWeights, gradBiases |-> st.gradBiases]

\* The loop over the samples of one batch, from sample acc.j on
RECURSIVE batchFrom(_, _, _, _, _, _, _, _)
batchFrom(W, B, layers, netConfig, trainConfig, batchX, batchY, acc) ==
    IF acc.threw \/ acc.j > Len(batchX) THEN acc
    ELSE batchFrom(W, B, layers, netConfig, trainConfig, batchX, batchY,
            batchAcc(acc, sampleStep(W, B, layers, netConfig, trainConfig,
                                     batchX[acc.j], batchY[acc.j],
                                     acc.gradWeights, acc.gradBiases)))

\* batchIndices.map(idx => items[idx])
batchOf(items, batchIndices) ==
    Array([k \in 1..Len(batchIndices) |-> items[batchIndices[k]]])

\* The epoch's state after a batch with sums and gradients b, updated
\* parameters upd and divisor count
afterBatch(st, trainConfig, b, upd, count) ==
    IF b.threw THEN [st EXCEPT !.threw = TRUE]
    ELSE [threw |-> FALSE, i |-> st.i + trainConfig.batchSize,
          weights |-> upd.weights, biases |-> upd.biases,
          optimizerState |-> upd.optimizerState,
          epochLoss |-> NAdd(st.epochLoss, NDivCount(b.batchLoss, count)),
          epochAccuracy |-> NAdd(st.epochAccuracy, NDivCount(b.batchAccuracy, count)),
          batchCount |-> st.batchCount + 1]

\* The optimizer step after the samples of a batch of n samples
updateAfter(st, trainConfig, b, n) ==
    afterBatch(st, trainConfig, b,
        applyAdamUpdate(st.weights, st.biases, st.optimizerState,
                        b.gradWeights, b.gradBiases, trainConfig.learningRate,
                        IF n > 0 THEN RoundDiv(One, n) ELSE One,
                        trainConfig.adamBeta1, trainConfig.adamBeta2,
                        trainConfig.adamEpsilon),
        IF n > 0 THEN n ELSE 1)

\* One batch: zero gradients, the loop over its samples, the optimizer step
runBatch(st, layers, netConfig, trainConfig, batchX, batchY) ==
    updateAfter(st, trainConfig,
        batchFrom(st.weights, st.biases, layers, netConfig, trainConfig, batchX, batchY,
                  [threw |-> FALSE, j |-> 1, batchLoss |-> 0, batchAccuracy |-> 0,
                   gradWeights |-> zerosLikeW(st.weights),
                   gradBiases |-> zerosLikeB(st.weights)]),
        Len(batchX))

\* The batch of the samples at batchIndices
runBatchAt(st, layers, netConfig, trainConfig, xTrain, yTrain, batchIndices) ==
    runBatch(st, layers, netConfig, trainConfig,
             batchOf(xTrain, batchIndices), batchOf(yTrain, batchIndices))

\* shuffledIndices.slice(i, i + batchSize), i counted from 0
batchSlice(shuffledIndices, i, batchSize) ==
    SubSeq(shuffledIndices, i + 1, Min2(i + batchSize, Len(shuffledIndices)))

\* The loop over the batches of one epoch, from offset st.i (0-based) on.
\* st holds the weights, biases and optimizer state as updated so far.
RECURSIVE batchesFrom(_, _, _, _, _, _, _)
batchesFrom(st, layers, netConfig, trainConfig, xTrain, yTrain, shuffledIndices) ==
    IF st.threw \/ st.i >= Len(xTrain) THEN st
    ELSE batchesFrom(
            runBatchAt(st, layers, netConfig, trainConfig, xTrain, yTrain,
                       batchSlice(shuffledIndices, st.i, trainConfig.batchSize)),
            layers, netConfig, trainConfig, xTrain, yTrain, shuffledIndices)

\* A test for a validation set that takes an empty array for one
hasValidationAllowingEmpty(xVal, yVal) == xVal.isArray /\ yVal.isArray

\* hasValidation = Array.isArray(xVal) && Array.isArray(yVal) && xVal.length > 0
hasValidation(xVal, yVal) == xVal.isArray /\ yVal.isArray /\ Len(xVal.items) > 0

\* The validation sums after a sample with label y and forward() result
\* prediction
validationAcc(acc, netConfig, y, prediction) ==
    IF prediction.threw THEN [acc EXCEPT !.threw = TRUE]
    ELSE [threw |-> FALSE, i |-> acc.i + 1,
          vLossSum |-> NAdd(acc.vLossSum, calculateLoss(netConfig, y, prediction.value)),
          vAccSum |-> NAdd(acc.vAccSum, calculateAccuracy(y, prediction.value))]

\* The validation loop from sample acc.i on: sums of loss and accuracy
RECURSIVE validationFrom(_, _, _, _, _, _, _)
validationFrom(W, B, layers, netConfig, xVal, yVal, acc) ==
    IF acc.threw \/ acc.i > Len(xVal) THEN acc
    ELSE validationFrom(W, B, layers, netConfig, xVal, yVal,
            validationAcc(acc, netConfig, labelAt(yVal, acc.i),
                          forward(W, B, layers, xVal[acc.i])))

\* An early-stopping decision that never resets the counter
earlyStoppingStepNoReset(bestEarlyStoppingLoss, patienceCounter, metricLoss, patience) ==
    IF NLt(metricLoss, bestEarlyStoppingLoss)
    THEN [bestEarlyStoppingLoss |-> metricLoss, patienceCounter |-> patienceCounter,
          stop |-> FALSE]
    ELSE [bestEarlyStoppingLoss |-> bestEarlyStoppingLoss,
          patienceCounter |-> patienceCounter + 1,
          stop |-> patienceCounter + 1 >= patience]

\* The early-stopping decision after an epoch with metric metricLoss
earlyStoppingStep(bestEarlyStoppingLoss, patienceCounter, metricLoss, patience) ==
    IF NLt(metricLoss, bestEarlyStoppingLoss)
    THEN [bestEarlyStoppingLoss |-> metricLoss, patienceCounter |-> 0, stop |-> FALSE]
    ELSE [bestEarlyStoppingLoss |-> bestEarlyStoppingLoss,
          patienceCounter |-> patienceCounter + 1,
          stop |-> patienceCounter + 1 >= patience]

\* ------------------------------------------------------------------------
\* State
\* ------------------------------------------------------------------------
VARIABLES
    heap,         \* the weights and biases arrays, by address
    nets,         \* the NeuralNetwork objects
    snaps,        \* the objects save() returned
    call,         \* the train() call: its arguments, locals and position
    cbLog,        \* the records onEpochEnd was invoked with, in order
    cbSettled,    \* how many of these invocations have completed
    timersFired,  \* how many between-epoch timers have fired
    out,          \* the result of the last forward / forwardWithCache / predict
    second,       \* a second train() call on the network of the first
    pages         \* the Train page and the Predict page of the application

vars == <<heap, nets, snaps, call, cbLog, cbSettled, timersFired, out, second, pages>>

\* ------------------------------------------------------------------------
\* Inputs
\* ------------------------------------------------------------------------
MaxSamples == 2    \* largest number of training samples

LossNames == {"binaryCrossentropy", "meanSquaredError"}

\* The network configurations: an input layer of 0, 1 or 2 units, one output
\* unit, and between a 1-unit input layer and the output possibly one
\* hidden relu layer
Configs ==
    {[architecture |->
        [inputLayer |-> [units |-> s.n], hiddenLayers |-> s.h,
         outputLayer |-> [units |-> 1, activation |-> a.activation]],
      trainingConfig |-> [optimizer |-> "adam", loss |-> a.loss]] :
        s \in {[n |-> 0, h |-> <<>>], [n |-> 1, h |-> <<>>], [n |-> 2, h |-> <<>>],
               [n |-> 1, h |-> <<[units |-> 1, activation |-> "relu"]>>]},
        a \in {[activation |-> "sigmoid", loss |-> "binaryCrossentropy"],
               [activation |-> "linear", loss |-> "meanSquaredError"]}}

Samples == {Vec(<<One>>), NotArray}
Labels == {Num(One)}

RECURSIVE SeqsUpTo(_, _)
SeqsUpTo(S, n) ==
    IF n = 0 THEN {<<>>}
    ELSE SeqsUpTo(S, n - 1) \cup
         {Append(q, x) : q \in {p \in SeqsUpTo(S, n - 1) : Len(p) = n - 1}, x \in S}

FeatureArgs == {NotArrayArg} \cup {Items(q) : q \in SeqsUpTo(Samples, MaxSamples)}
LabelArgs == {NotArrayArg} \cup {Items(q) : q \in SeqsUpTo(Labels, MaxSamples)}
\* Validation sets: empty, not given, one sample, two samples, one sample
\* that is not an array
ValidationArgs == {[x |-> Items(<<>>), y |-> Items(<<>>)],
                   [x |-> NotArrayArg, y |-> NotArrayArg],
                   [x |-> Items(<<Vec(<<One>>)>>), y |-> Items(<<Num(One)>>)],
                   [x |-> Items(<<Vec(<<One>>), Vec(<<0>>)>>),
                    y |-> Items(<<Num(One), Num(0)>>)],
                   [x |-> Items(<<NotArray>>), y |-> Items(<<Num(One)>>)]}

\* The config objects handed to train(); learningRate, adamBeta1, adamBeta2
\* and adamEpsilon are grid values (1, 1/2, 3/4 and the smallest positive one)
TrainConfigs ==
    {[epochs |-> e, batchSize |-> b, learningRate |-> One,
      earlyStopping |-> es.on, patience |-> es.patience, onEpochEnd |-> cb,
      adamBeta1 |-> Half, adamBeta2 |-> 6, adamEpsilon |-> 1, loss |-> "undefined"] :
        e \in 0..MaxEpochs, b \in {1, 2},
        es \in {[on |-> FALSE, patience |-> 1], [on |-> TRUE, patience |-> 1],
                [on |-> TRUE, patience |-> 2]},
        cb \in {"none", "sync", "async"}}

\* The config of a call that the argument checks reject
PlainTrainConfig ==
    [epochs |-> 1, batchSize |-> 1, learningRate |-> One,
     earlyStopping |-> FALSE, patience |-> 1, onEpochEnd |-> "none",
     adamBeta1 |-> Half, adamBeta2 |-> 6, adamEpsilon |-> 1, loss |-> "undefined"]

\* Equal-length non-empty arrays
wellFormed(xTrain, yTrain) ==
    /\ xTrain.isArray /\ yTrain.isArray
    /\ Len(xTrain.items) > 0 /\ Len(xTrain.items) = Len(yTrain.items)

\* The argument lists of train(): every well-formed training set with every
\* validation set and config, every other pair of arguments with one config
TrainArgs ==
    {a \in [xTrain : FeatureArgs, yTrain : LabelArgs, val : ValidationArgs,
            config : TrainConfigs] : wellFormed(a.xTrain, a.yTrain)}
    \cup [xTrain : FeatureArgs, yTrain : LabelArgs,
          val : {[x |-> Items(<<>>), y |-> Items(<<>>)]}, config : {PlainTrainConfig}]

\* The few argument lists used when training is interleaved with save(),
\* load() and inference: one or two epochs, no callback, an empty validation set
SmallTrainArgs ==
    {a \in TrainArgs :
        /\ a.config.onEpochEnd = "none" /\ ~a.config.earlyStopping
        /\ a.config.batchSize = 1 /\ a.config.epochs \in {1, 2}
        /\ a.val.x = Items(<<>>)
        /\ wellFormed(a.xTrain, a.yTrain) /\ Len(a.xTrain.items) = 1}

NoHistory == [loss |-> <<>>, accuracy |-> <<>>, valLoss |-> <<>>, valAccuracy |-> <<>>]

NoCall == [pc |-> "idle", net |-> 0, xTrain |-> NotArrayArg, yTrain |-> NotArrayArg,
           xVal |-> NotArrayArg, yVal |-> NotArrayArg,
           config |-> [epochs |-> 0, batchSize |-> 1, learningRate |-> 0,
                       earlyStopping |-> FALSE, patience |-> 1, onEpochEnd |-> "none",
                       adamBeta1 |-> 0, adamBeta2 |-> 0, adamEpsilon |-> 0,
                       loss |-> "undefined"],
           epoch |-> 0, history |-> NoHistory,
           bestEarlyStoppingLoss |-> Infinity, patienceCounter |-> 0,
           before |-> [weights |-> <<>>, biases |-> <<>>,
                       optimizerState |-> NoOptimizerState]]

NoOut == [op |-> "none", net |-> 0, x |-> [batch |-> FALSE, items |-> <<>>],
          result |-> PredictThrew, loaded |-> PredictThrew, same |-> FALSE]

\* ------------------------------------------------------------------------
\* The Train and Predict pages: their data
\* ------------------------------------------------------------------------
\* No column (null)
NoKey == ""

\* The header rows of the CSV files uploaded on the Train page and on the
\* Predict page; every file has one data row, or a number of rows that are
\* alike (rows of the Predict page)
TrainFiles == {<<"id", "f1", "label">>, <<"pid", "f1", "label">>,
               <<"f1", "f2", "label">>, <<"f1", "label">>,
               <<"name", "f1", "label">>}
TestFiles == {<<"id", "f1">>, <<"pid", "f1">>, <<"f1", "f2">>, <<"f2", "f1">>,
              <<"f1", "label">>, <<"f1">>}

\* parseFloat of the cell of column k in the data row; the cells of column
\* "name" are not numbers
cellNumber(k) ==
    IF k = "f1" THEN One
    ELSE IF k = "f2" THEN 0
    ELSE IF k = "pid" THEN Half
    ELSE IF k = "id" THEN 2 * One
    ELSE IF k = "label" THEN One
    ELSE NaN

\* Whether columns has a column k
includes(columns, k) == \E i \in 1..Len(columns) : columns[i] = k

\* A column is numeric if a cell of it parses to a number
isNumericColumn(k) == ~IsNaN(cellNumber(k))

\* isNaN(n) ? 0 : n for the cell of column k of a row with these columns
cellOrZero(columns, k) ==
    IF includes(columns, k) /\ ~IsNaN(cellNumber(k)) THEN cellNumber(k) ELSE 0

\* columns.filter(k => k !== a && k !== b) followed by the numeric filter
RECURSIVE numericKeysFrom(_, _, _, _)
numericKeysFrom(columns, a, b, i) ==
    IF i > Len(columns) THEN <<>>
    ELSE (IF columns[i] # a /\ columns[i] # b /\ isNumericColumn(columns[i])
          THEN <<columns[i]>> ELSE <<>>)
         \o numericKeysFrom(columns, a, b, i + 1)

\* keys.filter(k => k !== a && k !== b)
RECURSIVE keysWithout(_, _, _, _)
keysWithout(keys, a, b, i) ==
    IF i > Len(keys) THEN <<>>
    ELSE (IF keys[i] # a /\ keys[i] # b THEN <<keys[i]>> ELSE <<>>)
         \o keysWithout(keys, a, b, i + 1)

\* The feature vector of the data row for the keys
featureRow(columns, keys) ==
    Array([i \in 1..Len(keys) |-> cellOrZero(columns, keys[i])])

\* No model configuration uploaded (null)
NoConfig ==
    [architecture |->
        [inputLayer |-> [units |-> 0], hiddenLayers |-> <<>>,
         outputLayer |-> [units |-> 0, activation |-> "linear"]],
     trainingConfig |-> [optimizer |-> "none", loss |-> "undefined"]]

\* The model files the Create page writes for one sigmoid output unit and
\* one or two input units
PageConfigs ==
    {[architecture |->
        [inputLayer |-> [units |-> n], hiddenLayers |-> <<>>,
         outputLayer |-> [units |-> 1, activation |-> "sigmoid"]],
      trainingConfig |-> [optimizer |-> "adam", loss |-> "binaryCrossentropy"]] :
        n \in {1, 2}}

\* The epochs set on the Train page
PageEpochs == {1, 2}

\* The config object startTraining hands to train()
pageTrainConfig(epochs) ==
    [PlainTrainConfig EXCEPT !.epochs = epochs, !.batchSize = 2,
                             !.onEpochEnd = "sync"]

\* config.preprocessing of a model config: undefined unless the object has
\* the property
NoPreprocessing ==
    [given |-> FALSE, hasKeys |-> FALSE, featureKeys |-> <<>>,
     scaled |-> FALSE, mins |-> <<>>, maxs |-> <<>>]
preprocessingOf(config) ==
    IF "preprocessing" \in DOMAIN config THEN config.preprocessing
    ELSE NoPreprocessing

\* The downloaded trained_model.json: JSON.stringify of save(), that is the
\* config and layers of the network and the values of its arrays.
\* trainedOn notes the featureKeys of the prepareData() call whose features
\* trained the network; it is not part of the file.
NoFile == [present |-> FALSE, config |-> NoConfig, layers |-> <<>>,
           weights |-> <<>>, biases |-> <<>>, trainedOn |-> <<>>]

\* The outcome of makePredictions(): its featureKeys, the feature rows it
\* gave to predict(), what predict() returned, and this.predictions
NoPredictions == [made |-> FALSE, featureKeys |-> <<>>, features |-> <<>>,
                  result |-> PredictThrew, results |-> <<>>]

\* The defaults of the Train page's configuration inputs
DefaultEpochs == 100
DefaultBatchSize == 32
DefaultPatience == 10

\* this.trainingConfig as the constructor of TrainModelManager sets it
DefaultTrainingConfig ==
    [epochs |-> DefaultEpochs, batchSize |-> DefaultBatchSize,
     earlyStopping |-> FALSE, patience |-> DefaultPatience]

\* The pages before any file is uploaded: the fields of TrainModelManager,
\* the downloaded file, the fields of PredictManager.  history is
\* trainingProgress.history, each record noted with the run that pushed it;
\* complete is whether the training-complete card is displayed; afterReset
\* notes that resetTraining() ran and startTraining() has not since; runs
\* are the locals of the train() calls startTraining() issued.
NoPages ==
    [train |-> [data |-> <<>>, modelConfig |-> NoConfig, hasIdColumn |-> FALSE,
                targetColumn |-> "", isTraining |-> FALSE, trainedModel |-> 0,
                featureKeys |-> <<>>, trainedOn |-> <<>>,
                trainingConfig |-> DefaultTrainingConfig, history |-> <<>>,
                complete |-> FALSE, afterReset |-> FALSE],
     runs |-> <<>>,
     file |-> NoFile,
     predict |-> [trainedModel |-> 0, testData |-> <<>>, rows |-> 1,
                  hasTargetColumn |-> FALSE,
                  targetColumn |-> "", trainedOn |-> <<>>,
                  predictions |-> NoPredictions]]

\* ------------------------------------------------------------------------
\* Init: the state after new NeuralNetwork(config)
\* ------------------------------------------------------------------------
Init ==
    \E config \in Configs :
        \E w \in randomWeights(layersOf(config), 1) :
            /\ heap = <<w, zeroBiases(layersOf(config))>>
            /\ nets = <<NeuralNetwork(config, 1, 2)>>
            /\ snaps = <<>>
            /\ call = NoCall
            /\ cbLog = <<>>
            /\ cbSettled = 0
            /\ timersFired = 0
            /\ out = NoOut
            /\ second = NoCall
            /\ pages = NoPages

\* ------------------------------------------------------------------------
\* train(): argument checks, the epoch loop, the awaits
\* ------------------------------------------------------------------------
\* Argument checks without the two emptiness tests
trainInputsValidAllowEmpty(xTrain, yTrain) ==
    /\ xTrain.isArray /\ yTrain.isArray
    /\ ~(Len(xTrain.items) # Len(yTrain.items))

\* The checks at the head of train(): true when none of them throws
trainInputsValid(xTrain, yTrain) ==
    /\ xTrain.isArray /\ yTrain.isArray
    /\ ~(Len(xTrain.items) = 0 \/ Len(yTrain.items) = 0)
    /\ ~(Len(xTrain.items) # Len(yTrain.items))

\* A loop condition that admits one epoch more
loopContinuesInclusive(epoch, epochs) == epoch <= epochs

\* The loop condition of for (let epoch = 0; epoch < epochs; epoch++)
loopContinues(epoch, epochs) == epoch < epochs

\* A loop body that does not await the promise onEpochEnd returned
afterEpochNoAwait(stop, onEpochEnd) == IF stop THEN "done" ELSE "yield"

\* Where the loop body is once the epoch is recorded: returned (break),
\* suspended in await onEpochEnd(...), or suspended in the 10 ms timer.
\* A callback that is not async has completed when it returns.
afterEpoch(stop, onEpochEnd) ==
    IF stop THEN "done"
    ELSE IF onEpochEnd = "async" THEN "callback"
    ELSE "yield"

\* Whether the loop body reaches onEpochEnd(...) this epoch
invokesCallback(stop, onEpochEnd) == ~stop /\ onEpochEnd # "none"

\* The validation sums before the first validation sample
NoValidation == [threw |-> FALSE, i |-> 1, vLossSum |-> 0, vAccSum |-> 0]

\* The early-stopping block of the loop body on the monitored metric
earlyStopping(c, monitored) ==
    IF c.config.earlyStopping
    THEN earlyStoppingStep(c.bestEarlyStoppingLoss, c.patienceCounter,
                           monitored, c.config.patience)
    ELSE [bestEarlyStoppingLoss |-> c.bestEarlyStoppingLoss,
          patienceCounter |-> c.patienceCounter, stop |-> FALSE]

\* What a loop body that threw leaves: the arrays as updated so far
epochThrew(c, r) ==
    [threw |-> TRUE, weights |-> r.weights, biases |-> r.biases,
     optimizerState |-> r.optimizerState,
     record |-> [epoch |-> c.epoch + 1, loss |-> 0, accuracy |-> 0,
                 valLoss |-> Null, valAccuracy |-> Null],
     bestEarlyStoppingLoss |-> c.bestEarlyStoppingLoss,
     patienceCounter |-> c.patienceCounter, stop |-> FALSE]

\* What a loop body that recorded its epoch leaves
epochDone(r, record, es) ==
    [threw |-> FALSE, weights |-> r.weights, biases |-> r.biases,
     optimizerState |-> r.optimizerState, record |-> record,
     bestEarlyStoppingLoss |-> es.bestEarlyStoppingLoss,
     patienceCounter |-> es.patienceCounter, stop |-> es.stop]

\* The loop body from the history push on
epochRecorded(c, r, hasVal, record) ==
    epochDone(r, record,
              earlyStopping(c, IF hasVal THEN record.valLoss ELSE record.loss))

\* The loop body from the averages on, after the batches r and the
\* validation sums v
epochValidated(c, r, hasVal, v) ==
    IF r.threw \/ v.threw THEN epochThrew(c, r)
    ELSE epochRecorded(c, r, hasVal,
            [epoch |-> c.epoch + 1,
             loss |-> NDivCount(r.epochLoss, r.batchCount),
             accuracy |-> NDivCount(r.epochAccuracy, r.batchCount),
             valLoss |-> IF hasVal THEN NDivCount(v.vLossSum, Len(c.xVal.items))
                         ELSE Null,
             valAccuracy |-> IF hasVal THEN NDivCount(v.vAccSum, Len(c.xVal.items))
                             ELSE Null])

\* The loop body from the validation on, after the batches r
epochTrained(net, c, r, hasVal) ==
    epochValidated(c, r, hasVal,
        IF hasVal /\ ~r.threw
        THEN validationFrom(r.weights, r.biases, net.layers, net.config,
                            c.xVal.items, c.yVal.items, NoValidation)
        ELSE NoValidation)

\* The loop body for epoch c.epoch on network net with weights W and biases
\* B, from the shuffle to the first await, the break or an exception: the
\* arrays and optimizer state it leaves, the epoch's record, the early
\* stopping locals.  draws are the random numbers of the shuffle.
epochBody(net, W, B, c, draws) ==
    epochTrained(net, c,
        batchesFrom([threw |-> FALSE, i |-> 0, weights |-> W, biases |-> B,
                     optimizerState |-> net.optimizerState,
                     epochLoss |-> 0, epochAccuracy |-> 0, batchCount |-> 0],
                    net.layers, net.config, c.config, c.xTrain.items, c.yTrain.items,
                    shuffleArray(Array([i \in 1..Len(c.xTrain.items) |-> i]), draws)),
        hasValidation(c.xVal, c.yVal))

\* A loop body that pushes nothing onto history.valLoss
CommitEpochWithoutValLoss(c, b) ==
    /\ heap' = [heap EXCEPT ![nets[c.net].weights] = b.weights,
                            ![nets[c.net].biases] = b.biases]
    /\ nets' = [nets EXCEPT ![c.net].optimizerState = b.optimizerState]
    /\ IF b.threw
       THEN /\ call' = [c EXCEPT !.pc = "threw"]
            /\ UNCHANGED <<cbLog, cbSettled>>
       ELSE /\ call' = [c EXCEPT
                  !.pc = afterEpoch(b.stop, c.config.onEpochEnd),
                  !.history = [loss |-> Append(c.history.loss, b.record.loss),
                               accuracy |-> Append(c.history.accuracy, b.record.accuracy),
                               valLoss |-> c.history.valLoss,
                               valAccuracy |-> Append(c.history.valAccuracy,
                                                      b.record.valAccuracy)],
                  !.bestEarlyStoppingLoss = b.bestEarlyStoppingLoss,
                  !.patienceCounter = b.patienceCounter]
            /\ cbLog' = IF invokesCallback(b.stop, c.config.onEpochEnd)
                        THEN Append(cbLog, b.record) ELSE cbLog
            /\ cbSettled' = IF invokesCallback(b.stop, c.config.onEpochEnd)
                               /\ c.config.onEpochEnd = "sync"
                            THEN cbSettled + 1 ELSE cbSettled

\* The state after the loop body b of the call with locals c: the arrays
\* written back, the history grown by the record, the callback invoked
CommitEpoch(c, b) ==
    /\ heap' = [heap EXCEPT ![nets[c.net].weights] = b.weights,
                            ![nets[c.net].biases] = b.biases]
    /\ nets' = [nets EXCEPT ![c.net].optimizerState = b.optimizerState]
    /\ IF b.threw
       THEN /\ call' = [c EXCEPT !.pc = "threw"]
            /\ UNCHANGED <<cbLog, cbSettled>>
       ELSE /\ call' = [c EXCEPT
                  !.pc = afterEpoch(b.stop, c.config.onEpochEnd),
                  !.history = [loss |-> Append(c.history.loss, b.record.loss),
                               accuracy |-> Append(c.history.accuracy, b.record.accuracy),
                               valLoss |-> Append(c.history.valLoss, b.record.valLoss),
                               valAccuracy |-> Append(c.history.valAccuracy,
                                                      b.record.valAccuracy)],
                  !.bestEarlyStoppingLoss = b.bestEarlyStoppingLoss,
                  !.patienceCounter = b.patienceCounter]
            /\ cbLog' = IF invokesCallback(b.stop, c.config.onEpochEnd)
                        THEN Append(cbLog, b.record) ELSE cbLog
            /\ cbSettled' = IF invokesCallback(b.stop, c.config.onEpochEnd)
                               /\ c.config.onEpochEnd = "sync"
                            THEN cbSettled + 1 ELSE cbSettled

RunEpoch(c, draws) ==
    CommitEpoch(c, epochBody(nets[c.net], heap[nets[c.net].weights],
                             heap[nets[c.net].biases], c, draws))

\* Whether for (let i = 0; i < xTrain.length; i += batchSize) leaves a
\* non-empty training set behind: i has to grow
batchLoopEnds(batchSize) == batchSize >= 1

\* The loop from its condition on, for the locals c: the next epoch's body,
\* or return history.  A batch loop that does not end keeps the thread
\* (pc "batches"): no await is reached and no other code runs again.
RunLoop(c) ==
    IF loopContinues(c.epoch, c.config.epochs) /\ ~batchLoopEnds(c.config.batchSize)
    THEN /\ call' = [c EXCEPT !.pc = "batches"]
         /\ UNCHANGED <<heap, nets, cbLog, cbSettled>>
    ELSE IF loopContinues(c.epoch, c.config.epochs)
    THEN \E draws \in ShuffleDraws(Len(c.xTrain.items)) :
            /\ validDraws(draws, Len(c.xTrain.items))
            /\ RunEpoch(c, draws)
    ELSE /\ call' = [c EXCEPT !.pc = "done"]
         /\ UNCHANGED <<heap, nets, cbLog, cbSettled>>

\* The locals of train(xTrain, yTrain, xVal, yVal, config) on network n
\* at its entry
newCall(n, a) ==
    [NoCall EXCEPT !.net = n, !.xTrain = a.xTrain, !.yTrain = a.yTrain,
                   !.xVal = a.val.x, !.yVal = a.val.y, !.config = a.config,
                   !.before = [weights |-> heap[nets[n].weights],
                               biases |-> heap[nets[n].biases],
                               optimizerState |-> nets[n].optimizerState]]

\* train(xTrain, yTrain, xVal, yVal, config) called on network n: runs to
\* the first await, the return or an exception
TrainCall(n, a) ==
    /\ call.pc = "idle"
    /\ IF trainInputsValid(a.xTrain, a.yTrain)
       THEN RunLoop(newCall(n, a))
       ELSE /\ call' = [newCall(n, a) EXCEPT !.pc = "threw"]
            /\ UNCHANGED <<heap, nets, cbLog, cbSettled>>
    /\ UNCHANGED <<snaps, timersFired, out, second, pages>>

\* The promise onEpochEnd returned settles: train() goes on to the timer
CallbackSettle ==
    /\ call.pc = "callback"
    /\ call' = [call EXCEPT !.pc = "yield"]
    /\ cbSettled' = cbSettled + 1
    /\ UNCHANGED <<heap, nets, snaps, cbLog, timersFired, out, second, pages>>

\* The 10 ms timer fires: epoch++, then the loop condition and the next body
TimerFire ==
    /\ call.pc = "yield"
    /\ timersFired' = timersFired + 1
    /\ RunLoop([call EXCEPT !.epoch = call.epoch + 1])
    /\ UNCHANGED <<snaps, out, second, pages>>

\* ------------------------------------------------------------------------
\* A second train() call on the same network
\* ------------------------------------------------------------------------
\* The state after the loop body b of the second call with locals c (a call
\* without callback)
SecondCommitEpoch(c, b) ==
    /\ heap' = [heap EXCEPT ![nets[c.net].weights] = b.weights,
                            ![nets[c.net].biases] = b.biases]
    /\ nets' = [nets EXCEPT ![c.net].optimizerState = b.optimizerState]
    /\ second' = IF b.threw THEN [c EXCEPT !.pc = "threw"]
                 ELSE [c EXCEPT
                    !.pc = afterEpoch(b.stop, c.config.onEpochEnd),
                    !.history = [loss |-> Append(c.history.loss, b.record.loss),
                                 accuracy |-> Append(c.history.accuracy, b.record.accuracy),
                                 valLoss |-> Append(c.history.valLoss, b.record.valLoss),
                                 valAccuracy |-> Append(c.history.valAccuracy,
                                                        b.record.valAccuracy)],
                    !.bestEarlyStoppingLoss = b.bestEarlyStoppingLoss,
                    !.patienceCounter = b.patienceCounter]

\* The loop of the second call from its condition on
SecondRunLoop(c) ==
    IF loopContinues(c.epoch, c.config.epochs)
    THEN \E draws \in ShuffleDraws(Len(c.xTrain.items)) :
            /\ validDraws(draws, Len(c.xTrain.items))
            /\ SecondCommitEpoch(c, epochBody(nets[c.net], heap[nets[c.net].weights],
                                              heap[nets[c.net].biases], c, draws))
    ELSE /\ second' = [c EXCEPT !.pc = "done"]
         /\ UNCHANGED <<heap, nets>>

\* train() is called again on the network of the first call, which is
\* suspended in its between-epoch timer or has returned: the second call
\* runs to its first await, its return or an exception
TrainAgain(a) ==
    /\ call.pc \in {"yield", "done"}
    /\ second.pc = "idle"
    /\ IF trainInputsValid(a.xTrain, a.yTrain)
       THEN SecondRunLoop(newCall(call.net, a))
       ELSE /\ second' = [newCall(call.net, a) EXCEPT !.pc = "threw"]
            /\ UNCHANGED <<heap, nets>>
    /\ UNCHANGED <<snaps, call, cbLog, cbSettled, timersFired, out, pages>>

\* The 10 ms timer of the second call fires
SecondTimerFire ==
    /\ second.pc = "yield"
    /\ SecondRunLoop([second EXCEPT !.epoch = second.epoch + 1])
    /\ UNCHANGED <<snaps, call, cbLog, cbSettled, timersFired, out, pages>>

\* ------------------------------------------------------------------------
\* save() and load()
\* ------------------------------------------------------------------------
\* The heap without the addresses at its end that no object holds
RECURSIVE reclaim(_, _, _)
reclaim(h, ns, ss) ==
    IF Len(h) > 0
       /\ (\A i \in 1..Len(ns) : ns[i].weights # Len(h) /\ ns[i].biases # Len(h))
       /\ (\A k \in 1..Len(ss) : ss[k].weights # Len(h) /\ ss[k].biases # Len(h))
    THEN reclaim(SubSeq(h, 1, Len(h) - 1), ns, ss)
    ELSE h

\* A save() that drops the optimizer state of the network
SaveDroppingOptimizer(n) ==
    /\ Len(snaps) < MaxSnaps
    /\ snaps' = Append(snaps, save(nets[n]))
    /\ nets' = [nets EXCEPT ![n].optimizerState = NoOptimizerState]
    /\ UNCHANGED <<heap, call, cbLog, cbSettled, timersFired, out, second, pages>>

Save(n) ==
    /\ Len(snaps) < MaxSnaps
    /\ snaps' = Append(snaps, save(nets[n]))
    /\ UNCHANGED <<heap, nets, call, cbLog, cbSettled, timersFired, out, second, pages>>

Load(s) ==
    /\ Len(nets) < MaxNets
    /\ \E w \in randomWeights(layersOf(snaps[s].config), 1) :
          /\ nets' = Append(nets, load(snaps[s], Len(heap) + 1, Len(heap) + 2))
          /\ heap' = reclaim(heap \o <<w, zeroBiases(layersOf(snaps[s].config))>>,
                             nets', snaps)
    /\ UNCHANGED <<snaps, call, cbLog, cbSettled, timersFired, out, second, pages>>

\* ------------------------------------------------------------------------
\* Inference
\* ------------------------------------------------------------------------
\* The inputs of forward(): of the right length, too short, too long, not
\* an array
ForwardInputs == {Vec(<<One>>), Vec(<<>>), Vec(<<One, One>>), NotArray}
\* The arguments of predict(): one sample, a batch of two, a batch with a
\* sample that is not an array
PredictInputs ==
    {[batch |-> FALSE, items |-> <<x>>] : x \in {Vec(<<One>>), Vec(<<>>), NotArray}}
    \cup {[batch |-> TRUE, items |-> <<Vec(<<One>>), Vec(<<0>>)>>],
          [batch |-> TRUE, items |-> <<Vec(<<One>>), NotArray>>]}

\* What the caller of forward() gets from its result r
forwardOutcome(r) ==
    IF r.threw THEN PredictThrew ELSE PredictReturned(FALSE, <<r.value>>)

\* What the caller of forwardWithCache() gets from its result r
cacheOutcome(r) ==
    IF r.threw THEN PredictThrew ELSE PredictReturned(FALSE, <<r.value.output>>)

Forward(n, x) ==
    /\ out.op = "none"
    /\ out' = [op |-> "forward", net |-> n,
               x |-> [batch |-> FALSE, items |-> <<x>>],
               result |-> forwardOutcome(forward(heap[nets[n].weights],
                              heap[nets[n].biases], nets[n].layers, x)),
               loaded |-> PredictThrew, same |-> FALSE]
    /\ UNCHANGED <<heap, nets, snaps, call, cbLog, cbSettled, timersFired, second, pages>>

ForwardWithCache(n, x) ==
    /\ out.op = "none"
    /\ out' = [op |-> "forwardWithCache", net |-> n,
               x |-> [batch |-> FALSE, items |-> <<x>>],
               result |-> cacheOutcome(forwardWithCache(heap[nets[n].weights],
                              heap[nets[n].biases], nets[n].layers, x)),
               loaded |-> PredictThrew, same |-> FALSE]
    /\ UNCHANGED <<heap, nets, snaps, call, cbLog, cbSettled, timersFired, second, pages>>

Predict(n, x) ==
    /\ out.op = "none"
    /\ out' = [op |-> "predict", net |-> n, x |-> x,
               result |-> predict(heap[nets[n].weights], heap[nets[n].biases],
                                  nets[n].layers, x),
               loaded |-> PredictThrew, same |-> FALSE]
    /\ UNCHANGED <<heap, nets, snaps, call, cbLog, cbSettled, timersFired, second, pages>>

\* The caller takes the result of the inference call
TakeResult ==
    /\ out.op # "none"
    /\ out' = NoOut
    /\ UNCHANGED <<heap, nets, snaps, call, cbLog, cbSettled, timersFired, second, pages>>

\* n.predict(x) next to network.predict(x) for the network loaded from
\* n.save() into the heap allocated
roundTrip(n, x, allocated, network) ==
    [op |-> "loadSavedPredict", net |-> n, x |-> x,
     result |-> predict(heap[nets[n].weights], heap[nets[n].biases],
                        nets[n].layers, x),
     loaded |-> predict(allocated[network.weights], allocated[network.biases],
                        network.layers, x),
     same |-> /\ network.layers = nets[n].layers
              /\ allocated[network.weights] = heap[nets[n].weights]
              /\ allocated[network.biases] = heap[nets[n].biases]]

\* NeuralNetwork.load(n.save()).predict(x) next to n.predict(x); the saved
\* object and the loaded network are dropped afterwards
LoadSavedPredict(n, x) ==
    /\ out.op = "none"
    /\ \E w \in randomWeights(layersOf(nets[n].config), 1) :
          out' = roundTrip(n, x,
                    heap \o <<w, zeroBiases(layersOf(nets[n].config))>>,
                    load(save(nets[n]), Len(heap) + 1, Len(heap) + 2))
    /\ UNCHANGED <<heap, nets, snaps, call, cbLog, cbSettled, timersFired, second, pages>>

\* ------------------------------------------------------------------------
\* The optimizer and the output-layer delta on their own
\* ------------------------------------------------------------------------
\* Networks of one input unit, with or without a hidden relu unit, and one
\* or two output units
OptConfigs ==
    {[architecture |->
        [inputLayer |-> [units |-> 1], hiddenLayers |-> h,
         outputLayer |-> [units |-> a.units, activation |-> a.activation]],
      trainingConfig |-> [optimizer |-> "adam", loss |-> a.loss]] :
        h \in {<<>>, <<[units |-> 1, activation |-> "relu"]>>},
        a \in {[units |-> 1, activation |-> "sigmoid", loss |-> "binaryCrossentropy"],
               [units |-> 1, activation |-> "linear", loss |-> "meanSquaredError"],
               [units |-> 2, activation |-> "sigmoid", loss |-> "binaryCrossentropy"],
               [units |-> 2, activation |-> "sigmoid", loss |-> "categoricalCrossentropy"],
               [units |-> 2, activation |-> "linear", loss |-> "meanSquaredError"]}}

\* The state after new NeuralNetwork(config) for these networks
InitOpt ==
    \E config \in OptConfigs :
        \E w \in randomWeights(layersOf(config), 1) :
            /\ heap = <<w, zeroBiases(layersOf(config))>>
            /\ nets = <<NeuralNetwork(config, 1, 2)>>
            /\ snaps = <<>>
            /\ call = NoCall
            /\ cbLog = <<>>
            /\ cbSettled = 0
            /\ timersFired = 0
            /\ out = NoOut
            /\ second = NoCall
            /\ pages = NoPages

\* Gradient arrays shaped like the weights W and their biases, every entry g
gradsLikeW(W, g) == Array([wi \in 1..Len(W) |-> Array([r \in 1..Len(W[wi]) |->
                        Array([c \in 1..Len(W[wi][r]) |-> g])])])
gradsLikeB(W, g) == Array([wi \in 1..Len(W) |-> Array([r \in 1..Len(W[wi]) |-> g])])

\* The arguments of a direct applyAdamUpdate call: the value of every
\* gradient entry and epsilon (0, or the smallest positive grid value)
AdamArgs == [grad : {0, Half}, epsilon : {0, 1}]

\* The state after applyAdamUpdate on network n returned upd
AdamApplied(n, a, upd) ==
    /\ heap' = [heap EXCEPT ![nets[n].weights] = upd.weights,
                            ![nets[n].biases] = upd.biases]
    /\ nets' = [nets EXCEPT ![n].optimizerState = upd.optimizerState]
    /\ out' = [op |-> "applyAdamUpdate", net |-> n, args |-> a,
               before |-> [weights |-> heap[nets[n].weights],
                           biases |-> heap[nets[n].biases],
                           optimizerState |-> nets[n].optimizerState]]

\* n.applyAdamUpdate(gradWeights, gradBiases, 1, 1, 0.5, 0.75, epsilon)
ApplyAdam(n, a) ==
    /\ out.op = "none"
    /\ nets[n].optimizerState.t < MaxSteps
    /\ AdamApplied(n, a,
          applyAdamUpdate(heap[nets[n].weights], heap[nets[n].biases],
                          nets[n].optimizerState,
                          gradsLikeW(heap[nets[n].weights], a.grad),
                          gradsLikeB(heap[nets[n].weights], a.grad),
                          One, One, Half, 6, a.epsilon))
    /\ UNCHANGED <<snaps, call, cbLog, cbSettled, timersFired, second, pages>>

\* The samples and the config.loss of the train() call whose output-layer
\* delta is looked at
DeltaArgs ==
    [x : {Vec(<<One>>), Vec(<<0>>)},
     y : {Num(One), Num(0), Arr(<<One, 0>>), Arr(<<0, One>>)},
     loss : {"undefined", "binaryCrossentropy"}]

\* The output-layer delta train() computes for the sample from the result
\* fwd of forwardWithCache
deltaOutcome(n, a, fwd) ==
    IF fwd.threw
    THEN [op |-> "outputDelta", net |-> n, args |-> a, threw |-> TRUE,
          prediction |-> <<>>, zLast |-> <<>>, delta |-> <<>>]
    ELSE [op |-> "outputDelta", net |-> n, args |-> a, threw |-> FALSE,
          prediction |-> fwd.value.output,
          zLast |-> fwd.value.layerZs[Len(heap[nets[n].weights])],
          delta |-> outputDelta(heap[nets[n].weights], nets[n].layers, nets[n].config,
                                [loss |-> a.loss], fwd.value, a.y)]

\* The first steps of the per-sample body of train() on network n, up to
\* the output-layer delta
OutputDelta(n, a) ==
    /\ out.op = "none"
    /\ out' = deltaOutcome(n, a, forwardWithCache(heap[nets[n].weights],
                                    heap[nets[n].biases], nets[n].layers, a.x))
    /\ UNCHANGED <<heap, nets, snaps, call, cbLog, cbSettled, timersFired, second, pages>>

\* ------------------------------------------------------------------------
\* The Train page
\* ------------------------------------------------------------------------
\* this.targetColumn if it is a column of the data, else null
labelKeyOf(columns, targetColumn) ==
    IF targetColumn # "" /\ includes(columns, targetColumn) THEN targetColumn
    ELSE NoKey

\* The id column prepareData() excludes: with the box ticked, the column
\* named id, else the first column unless it is the label
trainIdKey(columns, hasIdColumn, labelKey) ==
    IF ~hasIdColumn THEN NoKey
    ELSE IF includes(columns, "id") THEN "id"
    ELSE IF columns[1] # labelKey THEN columns[1]
    ELSE NoKey

\* The 0/1 label of a cell that parses to n
labelNumber(n) == IF IsNaN(n) THEN 0 ELSE IF n > 0 THEN One ELSE 0

\* prepareData() returned null
NotPrepared == [ok |-> FALSE, featureKeys |-> <<>>, features |-> <<>>, labels |-> <<>>]

\* prepareData() from the check of the feature count on
prepareChecked(t, featureKeys, labelKey) ==
    IF t.modelConfig.architecture.inputLayer.units > 0
       /\ Len(featureKeys) # t.modelConfig.architecture.inputLayer.units
    THEN NotPrepared
    ELSE IF Len(featureKeys) = 0 THEN NotPrepared
    ELSE [ok |-> TRUE, featureKeys |-> featureKeys,
          features |-> <<Vec(featureRow(t.data, featureKeys))>>,
          labels |-> <<Num(labelNumber(cellNumber(labelKey)))>>]

\* prepareData() from the label column on
prepareLabelled(t, labelKey) ==
    IF labelKey = NoKey THEN NotPrepared
    ELSE prepareChecked(t,
            numericKeysFrom(t.data, labelKey,
                            trainIdKey(t.data, t.hasIdColumn, labelKey), 1),
            labelKey)

\* prepareData() on the fields t of the Train page
prepareData(t) ==
    IF t.data = <<>> \/ t.modelConfig = NoConfig THEN NotPrepared
    ELSE prepareLabelled(t, labelKeyOf(t.data, t.targetColumn))

\* handleDataFileUpload: the data, and the target preselected by
\* populateTargetColumnOptions when a column has a common label name
TrainDataUpload(columns) ==
    /\ pages.train.data = <<>>
    /\ pages' = [pages EXCEPT
          !.train.data = columns,
          !.train.targetColumn = IF includes(columns, "label") THEN "label" ELSE @]
    /\ UNCHANGED <<heap, nets, snaps, call, cbLog, cbSettled, timersFired, out, second>>

\* handleModelFileUpload of the Train page
TrainModelUpload(config) ==
    /\ pages.train.modelConfig = NoConfig
    /\ pages' = [pages EXCEPT !.train.modelConfig = config]
    /\ UNCHANGED <<heap, nets, snaps, call, cbLog, cbSettled, timersFired, out, second>>

\* The change handler of the has-id-column box
HasIdColumnChange(checked) ==
    /\ pages.train.hasIdColumn # checked
    /\ call.pc = "idle"
    /\ pages' = [pages EXCEPT !.train.hasIdColumn = checked]
    /\ UNCHANGED <<heap, nets, snaps, call, cbLog, cbSettled, timersFired, out, second>>

\* The change handler of the target column select
TargetColumnChange(k) ==
    /\ includes(pages.train.data, k)
    /\ pages.train.targetColumn # k
    /\ call.pc = "idle"
    /\ pages' = [pages EXCEPT !.train.targetColumn = k]
    /\ UNCHANGED <<heap, nets, snaps, call, cbLog, cbSettled, timersFired, out, second>>

\* The locals of network.train(features, labels, [], [], {...}) on the
\* network at index n with new arrays w and b
pageCall(n, prepared, epochs, w, b) ==
    [NoCall EXCEPT !.net = n, !.xTrain = Items(prepared.features),
                   !.yTrain = Items(prepared.labels),
                   !.xVal = Items(<<>>), !.yVal = Items(<<>>),
                   !.config = pageTrainConfig(epochs),
                   !.before = [weights |-> w, biases |-> b,
                               optimizerState |-> NoOptimizerState]]

\* startTraining() from new NeuralNetwork(this.modelConfig) to the first
\* await of train(): the network net, its arrays after loop body b
TrainingStarted(net, c, b, featureKeys) ==
    /\ heap' = heap \o <<b.weights, b.biases>>
    /\ nets' = Append(nets, [net EXCEPT !.optimizerState = b.optimizerState])
    /\ pages' = [pages EXCEPT !.train.isTraining = TRUE,
                              !.train.featureKeys = featureKeys]
    /\ IF b.threw
       THEN /\ call' = [c EXCEPT !.pc = "threw"]
            /\ UNCHANGED <<cbLog, cbSettled>>
       ELSE /\ call' = [c EXCEPT
                  !.pc = afterEpoch(b.stop, c.config.onEpochEnd),
                  !.history = [loss |-> <<b.record.loss>>,
                               accuracy |-> <<b.record.accuracy>>,
                               valLoss |-> <<b.record.valLoss>>,
                               valAccuracy |-> <<b.record.valAccuracy>>],
                  !.bestEarlyStoppingLoss = b.bestEarlyStoppingLoss,
                  !.patienceCounter = b.patienceCounter]
            /\ cbLog' = IF invokesCallback(b.stop, c.config.onEpochEnd)
                        THEN Append(cbLog, b.record) ELSE cbLog
            /\ cbSettled' = IF invokesCallback(b.stop, c.config.onEpochEnd)
                            THEN cbSettled + 1 ELSE cbSettled

\* startTraining() with the prepared data, for the arrays w the constructor
\* draws
StartPrepared(prepared, net, c) ==
    TrainingStarted(net, c,
        epochBody(net, c.before.weights, c.before.biases, c, <<>>),
        prepared.featureKeys)

\* startTraining(): returns at once when prepareData() gives null
StartTraining ==
    /\ call.pc = "idle" /\ ~pages.train.isTraining
    /\ prepareData(pages.train).ok
    /\ \E epochs \in PageEpochs,
          w \in randomWeights(layersOf(pages.train.modelConfig), 1) :
          StartPrepared(prepareData(pages.train),
              NeuralNetwork(pages.train.modelConfig, Len(heap) + 1, Len(heap) + 2),
              pageCall(Len(nets) + 1, prepareData(pages.train), epochs, w,
                       zeroBiases(layersOf(pages.train.modelConfig))))
    /\ UNCHANGED <<snaps, timersFired, out, second>>

\* startTraining() after await network.train(...): the trained network is
\* kept, or the error is shown
TrainingSettles ==
    /\ pages.train.isTraining
    /\ call.pc \in {"done", "threw"}
    /\ pages' = [pages EXCEPT
          !.train.isTraining = FALSE,
          !.train.trainedModel = IF call.pc = "done" THEN call.net ELSE @,
          !.train.trainedOn = IF call.pc = "done" THEN pages.train.featureKeys ELSE @]
    /\ UNCHANGED <<heap, nets, snaps, call, cbLog, cbSettled, timersFired, out, second>>

\* JSON.stringify(network.save()) for the network at index n
modelJSON(n, trainedOn) ==
    [present |-> TRUE, config |-> save(nets[n]).config, layers |-> save(nets[n]).layers,
     weights |-> heap[save(nets[n]).weights], biases |-> heap[save(nets[n]).biases],
     trainedOn |-> trainedOn]

\* downloadTrainedModel()
DownloadTrainedModel ==
    /\ pages.train.trainedModel # 0
    /\ ~pages.file.present
    /\ pages' = [pages EXCEPT
          !.file = modelJSON(pages.train.trainedModel, pages.train.trainedOn)]
    /\ UNCHANGED <<heap, nets, snaps, call, cbLog, cbSettled, timersFired, out, second>>

\* ------------------------------------------------------------------------
\* The Predict page
\* ------------------------------------------------------------------------
\* handleModelFileUpload of the Predict page: NeuralNetwork.load of the
\* parsed file, whose arrays are new ones
PredictModelUpload ==
    /\ pages.file.present
    /\ pages.predict.trainedModel = 0
    /\ heap' = heap \o <<pages.file.weights, pages.file.biases>>
    /\ nets' = Append(nets,
          load([config |-> pages.file.config, weights |-> Len(heap) + 1,
                biases |-> Len(heap) + 2, layers |-> pages.file.layers],
               Len(heap) + 1, Len(heap) + 2))
    /\ pages' = [pages EXCEPT !.predict.trainedModel = Len(nets) + 1,
                              !.predict.trainedOn = pages.file.trainedOn]
    /\ UNCHANGED <<snaps, call, cbLog, cbSettled, timersFired, out, second>>

\* handleTestDataUpload: the data, and the target preselected by
\* populateTargetOptions
TestDataUpload(columns) ==
    /\ pages.predict.trainedModel # 0
    /\ pages.predict.testData = <<>>
    /\ pages' = [pages EXCEPT
          !.predict.testData = columns,
          !.predict.targetColumn = IF includes(columns, "label") THEN "label" ELSE @]
    /\ UNCHANGED <<heap, nets, snaps, call, cbLog, cbSettled, timersFired, out, second>>

\* Object.keys(this.testData[0] || {}): no columns when the file has no row
colsOf(p) == IF p.rows = 0 THEN <<>> ELSE p.testData

\* handleTestDataUpload for a file of several rows or none
TestRowsUpload(columns, rows) ==
    /\ pages.predict.trainedModel # 0
    /\ pages.predict.testData = <<>>
    /\ pages' = [pages EXCEPT
          !.predict.testData = columns,
          !.predict.rows = rows,
          !.predict.targetColumn =
              IF rows > 0 /\ includes(columns, "label") THEN "label" ELSE @]
    /\ UNCHANGED <<heap, nets, snaps, call, cbLog, cbSettled, timersFired, out, second>>

\* The change handler of the has-target-column box
HasTargetColumnChange(checked) ==
    /\ pages.predict.testData # <<>>
    /\ pages.predict.hasTargetColumn # checked
    /\ pages' = [pages EXCEPT !.predict.hasTargetColumn = checked]
    /\ UNCHANGED <<heap, nets, snaps, call, cbLog, cbSettled, timersFired, out, second>>

\* idKey and targetKey of makePredictions()
predictIdKey(cols) == IF includes(cols, "id") THEN "id" ELSE NoKey
predictTargetKey(p) ==
    IF p.hasTargetColumn /\ p.targetColumn # "" /\ includes(colsOf(p), p.targetColumn)
    THEN p.targetColumn ELSE NoKey

\* featureKeys of makePredictions(): the keys saved with the model if any,
\* else the numeric columns of the test data
predictFeatureKeys(cols, idKey, targetKey, preprocessing) ==
    IF preprocessing.given /\ preprocessing.hasKeys
    THEN keysWithout(preprocessing.featureKeys, idKey, targetKey, 1)
    ELSE numericKeysFrom(cols, targetKey, idKey, 1)

\* (val - min) / (max - min || 1), clamped to [0, 1]
scaledTo(val, min, max) ==
    Max2(0, Min2(One, NDiv(NSub(val, min), IF max = min THEN One ELSE NSub(max, min))))

\* mins[key] or maxs[key] if it is a number, else the default
boundOf(bounds, key, default) ==
    IF key \in DOMAIN bounds THEN bounds[key] ELSE default

\* The feature row after the training-time normalization, if the model
\* has one
normalized(row, featureKeys, preprocessing) ==
    IF preprocessing.given /\ preprocessing.scaled
    THEN Array([i \in 1..Len(row) |->
            scaledTo(row[i], boundOf(preprocessing.mins, featureKeys[i], 0),
                     boundOf(preprocessing.maxs, featureKeys[i], One))])
    ELSE row

\* A feature row that is trimmed to the input units and never padded
fitToInputTrimming(row, expected) ==
    Array([i \in 1..Min2(expected, Len(row)) |-> row[i]])

\* The feature row trimmed or padded with zeros to the input units
fitToInput(row, expected) ==
    Array([i \in 1..expected |-> IF i <= Len(row) THEN row[i] ELSE 0])

\* The argument features of predict(): a batch when features[0] is an
\* array, else taken for one sample
predictArg(features) ==
    IF Len(features) > 0
    THEN [batch |-> TRUE, items |-> Array([i \in 1..Len(features) |-> Vec(features[i])])]
    ELSE [batch |-> FALSE, items |-> <<Vec(<<>>)>>]

\* typeof prediction === 'number' && !isNaN(prediction) ? prediction : 0.5
predValOf(prediction) == IF IsNaN(prediction) THEN Half ELSE prediction

\* The result of one test row from predVal
resultFrom(predVal) ==
    [prediction |-> predVal,
     confidence |-> 2 * (IF predVal >= Half THEN predVal - Half ELSE Half - predVal),
     predictedClass |-> IF predVal > Half THEN "Class 1" ELSE "Class 0"]

\* The result of the test row at index: rawPred = predictions[index],
\* prediction = Array.isArray(rawPred) ? rawPred[0] : rawPred
resultAt(predicted, index) ==
    resultFrom(predValOf(IF predicted.batch /\ index <= Len(predicted.outs)
                         THEN At(predicted.outs[index], 1)
                         ELSE At(predicted.outs[1], index)))

\* this.predictions after makePredictions(): the results of the rows, or,
\* when predict() threw, what it was
resultsOf(rows, predicted, previous) ==
    IF predicted.threw THEN previous
    ELSE Array([index \in 1..rows |-> resultAt(predicted, index)])

\* makePredictions() from the call of predict() on
predictionsWith(p, net, W, B, featureKeys, features, predicted) ==
    [made |-> TRUE, featureKeys |-> featureKeys, features |-> features,
     result |-> predicted,
     results |-> resultsOf(p.rows, predicted, p.predictions.results)]

\* makePredictions() from the feature keys on, for network net with arrays
\* W and B
predictionsFor(p, net, W, B, featureKeys, preprocessing) ==
    predictionsWith(p, net, W, B, featureKeys,
        Array([r \in 1..p.rows |->
                 fitToInput(normalized(featureRow(colsOf(p), featureKeys),
                                       featureKeys, preprocessing),
                            net.config.architecture.inputLayer.units)]),
        predict(W, B, net.layers,
            predictArg(Array([r \in 1..p.rows |->
                 fitToInput(normalized(featureRow(colsOf(p), featureKeys),
                                       featureKeys, preprocessing),
                            net.config.architecture.inputLayer.units)]))))

\* makePredictions() on the fields p of the Predict page
makePredictions(p, net, W, B) ==
    predictionsFor(p, net, W, B,
        predictFeatureKeys(colsOf(p), predictIdKey(colsOf(p)), predictTargetKey(p),
                           preprocessingOf(net.config)),
        preprocessingOf(net.config))

MakePredictions ==
    /\ pages.predict.trainedModel # 0
    /\ pages.predict.testData # <<>>
    /\ pages' = [pages EXCEPT !.predict.predictions =
          makePredictions(pages.predict, nets[pages.predict.trainedModel],
                          heap[nets[pages.predict.trainedModel].weights],
                          heap[nets[pages.predict.trainedModel].biases])]
    /\ UNCHANGED <<heap, nets, snaps, call, cbLog, cbSettled, timersFired, out, second>>

\* The state before any page has done anything: no network exists
InitPages ==
    /\ heap = <<>>
    /\ nets = <<>>
    /\ snaps = <<>>
    /\ call = NoCall
    /\ cbLog = <<>>
    /\ cbSettled = 0
    /\ timersFired = 0
    /\ out = NoOut
    /\ second = NoCall
    /\ pages = NoPages

\* ------------------------------------------------------------------------
\* The shuffle and the batches of an epoch on their own
\* ------------------------------------------------------------------------
\* indices = [0, ..., n-1], as positions 1..n of the training arrays
indicesOf(n) == Array([i \in 1..n |-> i])

\* The batchIndices of the loop for (i = 0; i < n; i += batchSize), from
\* offset i on
RECURSIVE epochBatches(_, _, _, _)
epochBatches(shuffledIndices, n, batchSize, i) ==
    IF i >= n THEN <<>>
    ELSE <<batchSlice(shuffledIndices, i, batchSize)>>
         \o epochBatches(shuffledIndices, n, batchSize, i + batchSize)

\* What one epoch's shuffle and batch loop produce for the draws of
\* Math.random(): the indices array after the call, the shuffled indices,
\* the batches, and whether the shuffle differs from that of the epoch
\* before (previous)
shuffled(epoch, n, batchSize, indices, shuffledIndices, previous) ==
    [op |-> "epochBatches", epoch |-> epoch, n |-> n, batchSize |-> batchSize,
     indices |-> indices, shuffled |-> shuffledIndices,
     batches |-> epochBatches(shuffledIndices, n, batchSize, 0),
     changed |-> shuffledIndices # previous]

\* The first epoch's shuffle and batches for n samples
FirstShuffle(n, batchSize, draws) ==
    /\ out.op = "none"
    /\ validDraws(draws, n)
    /\ out' = shuffled(1, n, batchSize, indicesOf(n),
                       shuffleArray(indicesOf(n), draws), <<>>)
    /\ UNCHANGED <<heap, nets, snaps, call, cbLog, cbSettled, timersFired, second, pages>>

\* The next epoch's shuffle and batches
NextShuffle(draws) ==
    /\ out.op = "epochBatches" /\ out.epoch < MaxEpochs
    /\ validDraws(draws, out.n)
    /\ out' = shuffled(out.epoch + 1, out.n, out.batchSize, indicesOf(out.n),
                       shuffleArray(indicesOf(out.n), draws), out.shuffled)
    /\ UNCHANGED <<heap, nets, snaps, call, cbLog, cbSettled, timersFired, second, pages>>

\* ------------------------------------------------------------------------
\* Training on labels that are not numbers
\* ------------------------------------------------------------------------
\* Training sets of two samples whose labels are 1, 0 or NaN (a label that
\* is not a number gives the same loss), in batches of one or two, without
\* callback, validation set or early stopping
AnomalyTrainArgs ==
    {[xTrain |-> Items(<<Vec(<<One>>), Vec(<<0>>)>>),
      yTrain |-> Items(<<Num(y1), Num(y2)>>),
      val |-> [x |-> Items(<<>>), y |-> Items(<<>>)],
      config |-> [PlainTrainConfig EXCEPT !.epochs = e, !.batchSize = b]] :
        y1 \in {One, NaN}, y2 \in {0, NaN}, e \in {1, 2}, b \in {1, 2}}

\* train() on such a training set
TrainAnomaly ==
    /\ call.pc = "idle"
    /\ \E n \in 1..Len(nets), a \in AnomalyTrainArgs : TrainCall(n, a)

\* ------------------------------------------------------------------------
\* Training networks with more than one output unit
\* ------------------------------------------------------------------------
\* Training sets of two samples with vector labels, a NaN among them or
\* not, in batches of one or two, with adamEpsilon 0 or the smallest
\* positive value, without callback, validation set or early stopping
UnitsTrainArgs ==
    {[xTrain |-> Items(<<Vec(<<One>>), Vec(<<Half>>)>>),
      yTrain |-> Items(<<Arr(<<y1, 0>>), Arr(<<0, One>>)>>),
      val |-> [x |-> Items(<<>>), y |-> Items(<<>>)],
      config |-> [PlainTrainConfig EXCEPT !.epochs = e, !.batchSize = b,
                                          !.adamEpsilon = eps]] :
        y1 \in {One, NaN}, e \in {1, 2}, b \in {1, 2}, eps \in {0, 1}}

\* train() on such a training set
TrainUnits ==
    /\ call.pc = "idle"
    /\ \E n \in 1..Len(nets), a \in UnitsTrainArgs : TrainCall(n, a)

\* Training sets of one or two samples, arrays or not, with zero, negative
\* and positive epochs, batch sizes from -1 to beyond the training set, early
\* stopping or not, every kind of callback
TermTrainArgs ==
    {a \in [xTrain : FeatureArgs, yTrain : LabelArgs,
            val : {[x |-> Items(<<>>), y |-> Items(<<>>)]},
            config : {[PlainTrainConfig EXCEPT !.epochs = e, !.batchSize = b,
                                               !.earlyStopping = es, !.onEpochEnd = cb] :
                        e \in -1..MaxEpochs, b \in -1..(MaxSamples + 1),
                        es \in BOOLEAN, cb \in {"none", "sync", "async"}}] :
        wellFormed(a.xTrain, a.yTrain)}

\* train() on such arguments
TrainTerm ==
    /\ call.pc = "idle"
    /\ \E n \in 1..Len(nets), a \in TermTrainArgs : TrainCall(n, a)

\* ------------------------------------------------------------------------
\* The Train page: configuration inputs, concurrent runs, reset
\* ------------------------------------------------------------------------
MaxRuns == 2    \* most startTraining() calls that reach train()

\* What is typed into a number input, character by character
TypedValues == {<<>>, <<"0">>, <<"2">>, <<"-", "1">>, <<"x">>}

DigitChars == <<"0", "1", "2", "3", "4", "5", "6", "7", "8", "9">>
isDigit(ch) == \E d \in 1..10 : DigitChars[d] = ch
digitOf(ch) == (CHOOSE d \in 1..10 : DigitChars[d] = ch) - 1

\* The number the digits of s from position i on spell after acc, up to the
\* first character that is not a digit
RECURSIVE digitsFrom(_, _, _)
digitsFrom(s, i, acc) ==
    IF i > Len(s) \/ ~isDigit(s[i]) THEN acc
    ELSE digitsFrom(s, i + 1, 10 * acc + digitOf(s[i]))

\* parseInt(s): an optional sign and the leading digits, NaN without digits
parseInt(s) ==
    IF Len(s) >= 2 /\ s[1] = "-" /\ isDigit(s[2]) THEN 0 - digitsFrom(s, 2, 0)
    ELSE IF Len(s) >= 1 /\ isDigit(s[1]) THEN digitsFrom(s, 1, 0)
    ELSE NaN

\* n || d: d when n is NaN or 0
orDefault(n, d) == IF IsNaN(n) \/ n = 0 THEN d ELSE n

\* Some train() call of the page never leaves its batch loop: the thread is
\* kept and no handler runs again
Blocked == \E i \in 1..Len(pages.runs) : pages.runs[i].pc = "batches"

\* The change handler of the epochs input
EpochsInput(v) ==
    /\ ~Blocked
    /\ pages' = [pages EXCEPT
          !.train.trainingConfig.epochs = orDefault(parseInt(v), DefaultEpochs)]
    /\ UNCHANGED <<heap, nets, snaps, call, cbLog, cbSettled, timersFired, out, second>>

\* The change handler of the batch-size input
BatchSizeInput(v) ==
    /\ ~Blocked
    /\ pages' = [pages EXCEPT
          !.train.trainingConfig.batchSize = orDefault(parseInt(v), DefaultBatchSize)]
    /\ UNCHANGED <<heap, nets, snaps, call, cbLog, cbSettled, timersFired, out, second>>

\* The change handler of the early-stopping box
EarlyStoppingChange(checked) ==
    /\ ~Blocked
    /\ pages' = [pages EXCEPT !.train.trainingConfig.earlyStopping = checked]
    /\ UNCHANGED <<heap, nets, snaps, call, cbLog, cbSettled, timersFired, out, second>>

\* The change handler of the patience input, which togglePatienceInput
\* displays while the early-stopping box is ticked
PatienceInput(v) ==
    /\ ~Blocked
    /\ pages.train.trainingConfig.earlyStopping
    /\ pages' = [pages EXCEPT
          !.train.trainingConfig.patience = orDefault(parseInt(v), DefaultPatience)]
    /\ UNCHANGED <<heap, nets, snaps, call, cbLog, cbSettled, timersFired, out, second>>

\* The locals of network.train(features, labels, [], [], {...}) as
\* startTraining() calls it with this.trainingConfig tc
managerCall(n, prepared, tc, w, b) ==
    [NoCall EXCEPT !.net = n, !.xTrain = Items(prepared.features),
                   !.yTrain = Items(prepared.labels),
                   !.xVal = Items(<<>>), !.yVal = Items(<<>>),
                   !.config = [PlainTrainConfig EXCEPT
                                  !.epochs = tc.epochs, !.batchSize = tc.batchSize,
                                  !.earlyStopping = tc.earlyStopping,
                                  !.patience = tc.patience, !.onEpochEnd = "sync"],
                   !.before = [weights |-> w, biases |-> b,
                               optimizerState |-> NoOptimizerState]]

\* train() with locals c after the loop body b: its locals, the arrays and
\* optimizer state of its network, the record given to onEpochEnd if it
\* was invoked
bodyStep(c, b) ==
    [call |-> IF b.threw THEN [c EXCEPT !.pc = "threw"]
              ELSE [c EXCEPT
                  !.pc = afterEpoch(b.stop, c.config.onEpochEnd),
                  !.history = [loss |-> Append(c.history.loss, b.record.loss),
                               accuracy |-> Append(c.history.accuracy, b.record.accuracy),
                               valLoss |-> Append(c.history.valLoss, b.record.valLoss),
                               valAccuracy |-> Append(c.history.valAccuracy,
                                                      b.record.valAccuracy)],
                  !.bestEarlyStoppingLoss = b.bestEarlyStoppingLoss,
                  !.patienceCounter = b.patienceCounter],
     weights |-> b.weights, biases |-> b.biases, optimizerState |-> b.optimizerState,
     called |-> ~b.threw /\ invokesCallback(b.stop, c.config.onEpochEnd),
     record |-> b.record]

\* train() with locals c from its loop condition to the next await, the
\* return, an exception or a batch loop without end, on the one-row
\* training set of the page (a shuffle of one index draws nothing)
loopStep(net, W, B, c) ==
    IF ~loopContinues(c.epoch, c.config.epochs) \/ ~batchLoopEnds(c.config.batchSize)
    THEN [call |-> [c EXCEPT !.pc = IF loopContinues(c.epoch, c.config.epochs)
                                    THEN "batches" ELSE "done"],
          weights |-> W, biases |-> B, optimizerState |-> net.optimizerState,
          called |-> FALSE,
          record |-> [epoch |-> 0, loss |-> 0, accuracy |-> 0,
                      valLoss |-> Null, valAccuracy |-> Null]]
    ELSE bodyStep(c, epochBody(net, W, B, c, <<>>))

\* updateTrainingProgress(epochData) when step s invoked onEpochEnd, for
\* the fields t of the page and the run i
updateTrainingProgress(t, s, i) ==
    IF s.called
    THEN [t EXCEPT !.history = Append(@, [run |-> i, epoch |-> s.record.epoch,
                                          loss |-> s.record.loss,
                                          accuracy |-> s.record.accuracy])]
    ELSE t

\* startTraining() after await network.train(...), when step s returned or
\* threw: the continuation runs before any other event is handled
trainAwaited(t, s) ==
    IF s.call.pc = "done"
    THEN [t EXCEPT !.trainedModel = s.call.net, !.isTraining = FALSE,
                   !.complete = TRUE]
    ELSE IF s.call.pc = "threw" THEN [t EXCEPT !.isTraining = FALSE]
    ELSE t

\* startTraining() from new NeuralNetwork(this.modelConfig) on, with the
\* first step s of its train() call
StartedRun(net, featureKeys, s) ==
    /\ heap' = heap \o <<s.weights, s.biases>>
    /\ nets' = Append(nets, [net EXCEPT !.optimizerState = s.optimizerState])
    /\ pages' = [pages EXCEPT
          !.runs = Append(@, s.call),
          !.train = trainAwaited(
                       updateTrainingProgress(
                          [@ EXCEPT !.isTraining = TRUE, !.history = <<>>,
                                    !.afterReset = FALSE, !.featureKeys = featureKeys],
                          s, Len(pages.runs) + 1),
                       s)]

\* startTraining(): returns at once when prepareData() gives null
StartRun ==
    /\ ~Blocked
    /\ Len(pages.runs) < MaxRuns
    /\ prepareData(pages.train).ok
    /\ \E w \in randomWeights(layersOf(pages.train.modelConfig), 1) :
          StartedRun(NeuralNetwork(pages.train.modelConfig, Len(heap) + 1, Len(heap) + 2),
                     prepareData(pages.train).featureKeys,
                     loopStep(NeuralNetwork(pages.train.modelConfig,
                                            Len(heap) + 1, Len(heap) + 2),
                              w, zeroBiases(layersOf(pages.train.modelConfig)),
                              managerCall(Len(nets) + 1, prepareData(pages.train),
                                          pages.train.trainingConfig, w,
                                          zeroBiases(layersOf(pages.train.modelConfig)))))
    /\ UNCHANGED <<snaps, call, cbLog, cbSettled, timersFired, out, second>>

\* The state after step s of the suspended run i
RunStepped(i, s) ==
    /\ heap' = [heap EXCEPT ![nets[s.call.net].weights] = s.weights,
                            ![nets[s.call.net].biases] = s.biases]
    /\ nets' = [nets EXCEPT ![s.call.net].optimizerState = s.optimizerState]
    /\ pages' = [pages EXCEPT
          !.runs[i] = s.call,
          !.train = trainAwaited(updateTrainingProgress(@, s, i), s)]

\* The 10 ms timer of the suspended run i fires: epoch++, then the loop
\* condition and the next body
RunTimerFire(i) ==
    /\ ~Blocked
    /\ pages.runs[i].pc = "yield"
    /\ RunStepped(i, loopStep(nets[pages.runs[i].net],
                              heap[nets[pages.runs[i].net].weights],
                              heap[nets[pages.runs[i].net].biases],
                              [pages.runs[i] EXCEPT !.epoch = @ + 1]))
    /\ UNCHANGED <<snaps, call, cbLog, cbSettled, timersFired, out, second>>

\* resetTraining()
ResetTraining ==
    /\ ~Blocked
    /\ pages' = [pages EXCEPT
          !.train.data = <<>>, !.train.modelConfig = NoConfig,
          !.train.trainedModel = 0, !.train.isTraining = FALSE,
          !.train.history = <<>>, !.train.complete = FALSE,
          !.train.afterReset = TRUE]
    /\ UNCHANGED <<heap, nets, snaps, call, cbLog, cbSettled, timersFired, out, second>>

\* The model file of one input unit and the data file of one feature
OneInputConfig == CHOOSE c \in PageConfigs : c.architecture.inputLayer.units = 1
OneFeatureFile == <<"f1", "label">>

\* The Train page with both files uploaded
InitManager ==
    /\ heap = <<>>
    /\ nets = <<>>
    /\ snaps = <<>>
    /\ call = NoCall
    /\ cbLog = <<>>
    /\ cbSettled = 0
    /\ timersFired = 0
    /\ out = NoOut
    /\ second = NoCall
    /\ pages = [NoPages EXCEPT !.train.data = OneFeatureFile,
                                !.train.targetColumn = "label",
                                !.train.modelConfig = OneInputConfig]

\* The Train page with both files uploaded and 2 typed into the epochs input
InitTyped ==
    /\ heap = <<>>
    /\ nets = <<>>
    /\ snaps = <<>>
    /\ call = NoCall
    /\ cbLog = <<>>
    /\ cbSettled = 0
    /\ timersFired = 0
    /\ out = NoOut
    /\ second = NoCall
    /\ pages = [NoPages EXCEPT !.train.data = OneFeatureFile,
                                !.train.targetColumn = "label",
                                !.train.modelConfig = OneInputConfig,
                                !.train.trainingConfig.epochs =
                                    orDefault(parseInt(<<"2">>), DefaultEpochs)]

\* Some call of train() on some network
Train ==
    /\ call.pc = "idle"
    /\ \E n \in 1..Len(nets), a \in TrainArgs : TrainCall(n, a)

\* The training run: one call of train() on the constructed network
Next ==
    \/ Train
    \/ CallbackSettle
    \/ TimerFire

Spec == Init /\ [][Next]_vars

\* A short call of train() on some network
TrainSmall ==
    /\ call.pc = "idle"
    /\ \E n \in 1..Len(nets), a \in SmallTrainArgs : TrainCall(n, a)

\* The network objects: save(), load() and inference, around and between
\* the epochs of a short training run
NextNet ==
    \/ out.op = "none" /\ TrainSmall
    \/ out.op = "none" /\ TimerFire
    \/ out.op = "none" /\ \E n \in 1..Len(nets) : Save(n)
    \/ out.op = "none" /\ \E s \in 1..Len(snaps) : Load(s)
    \/ TakeResult
    \/ \E n \in 1..Len(nets), x \in ForwardInputs : Forward(n, x)
    \/ \E n \in 1..Len(nets), x \in ForwardInputs : ForwardWithCache(n, x)
    \/ \E n \in 1..Len(nets), x \in PredictInputs : Predict(n, x)
    \/ \E n \in 1..Len(nets), x \in PredictInputs : LoadSavedPredict(n, x)

SpecNet == Init /\ [][NextNet]_vars

\* A second short call of train() on the network of the first
TrainSecond == \E a \in SmallTrainArgs : TrainAgain(a)

\* Two calls of train() on one network: the second is started while the
\* first is suspended between two epochs, or after it has returned
NextTwo ==
    \/ TrainSmall
    \/ TimerFire
    \/ TrainSecond
    \/ SecondTimerFire

SpecTwo == Init /\ [][NextTwo]_vars

\* Direct optimizer steps and output-layer deltas on a new network
NextOpt ==
    \/ \E n \in 1..Len(nets), a \in AdamArgs : ApplyAdam(n, a)
    \/ \E n \in 1..Len(nets), a \in DeltaArgs : OutputDelta(n, a)
    \/ TakeResult

SpecOpt == InitOpt /\ [][NextOpt]_vars

\* The Train page and the Predict page: a model is configured, trained,
\* downloaded, uploaded on the Predict page and used on test data
NextPages ==
    \/ \E columns \in TrainFiles : TrainDataUpload(columns)
    \/ \E config \in PageConfigs : TrainModelUpload(config)
    \/ \E checked \in BOOLEAN : HasIdColumnChange(checked)
    \/ \E k \in {"f1", "f2", "label"} : TargetColumnChange(k)
    \/ StartTraining
    \/ TimerFire
    \/ TrainingSettles
    \/ DownloadTrainedModel
    \/ PredictModelUpload
    \/ \E columns \in TestFiles : TestDataUpload(columns)
    \/ \E checked \in BOOLEAN : HasTargetColumnChange(checked)
    \/ MakePredictions

SpecPages == InitPages /\ [][NextPages]_vars

\* The shuffles and batches of the epochs of one training set
NextBatches ==
    \/ \E n \in 1..MaxIndices, batchSize \in 1..MaxBatchSize :
          \E draws \in ShuffleDraws(n) : FirstShuffle(n, batchSize, draws)
    \/ out.op = "epochBatches" /\ \E draws \in ShuffleDraws(out.n) : NextShuffle(draws)

SpecBatches == InitPages /\ [][NextBatches]_vars

\* A training run on labels some of which are not numbers
NextAnomaly ==
    \/ TrainAnomaly
    \/ TimerFire

SpecAnomaly == Init /\ [][NextAnomaly]_vars

\* A training run on a network with one or two output units
NextUnits ==
    \/ TrainUnits
    \/ TimerFire

SpecUnits == InitOpt /\ [][NextUnits]_vars

\* Weak fairness of TimerFire, which is possible exactly when train() is
\* suspended in its 10 ms timer: the event loop runs a due timer
TimerFair == []<>(call.pc # "yield") \/ []<><<TimerFire>>_vars

\* A training run whose callback promise settles and whose timer fires
NextTerm ==
    \/ TrainTerm
    \/ CallbackSettle
    \/ TimerFire

SpecTerm ==
    /\ Init /\ [][NextTerm]_vars
    /\ WF_vars(CallbackSettle) /\ TimerFair

\* The Train page while its configuration is typed and then one run is
\* started, followed for MaxEpochs epochs
NextConfig ==
    \/ pages.runs = <<>> /\ \E v \in TypedValues : EpochsInput(v)
    \/ pages.runs = <<>> /\ \E v \in TypedValues : BatchSizeInput(v)
    \/ pages.runs = <<>> /\ \E checked \in BOOLEAN : EarlyStoppingChange(checked)
    \/ pages.runs = <<>> /\ \E v \in TypedValues : PatienceInput(v)
    \/ pages.runs = <<>> /\ StartRun
    \/ \E i \in 1..Len(pages.runs) :
          pages.runs[i].epoch + 1 < MaxEpochs /\ RunTimerFire(i)

SpecConfig == InitManager /\ [][NextConfig]_vars

\* The Train page under clicks on Start training and Reset, uploads and
\* the timers of the runs
NextManager ==
    \/ StartRun
    \/ \E i \in 1..Len(pages.runs) : RunTimerFire(i)
    \/ ResetTraining
    \/ TrainDataUpload(OneFeatureFile)
    \/ TrainModelUpload(OneInputConfig)

SpecManager == InitTyped /\ [][NextManager]_vars

\* The Train page under clicks on Start training and on the early-stopping
\* box, and the timers of the runs
NextStarts ==
    \/ StartRun
    \/ \E checked \in BOOLEAN : EarlyStoppingChange(checked)
    \/ \E i \in 1..Len(pages.runs) : RunTimerFire(i)

SpecStarts == InitTyped /\ [][NextStarts]_vars

\* The pages with test files of no, one or several rows
MaxRows == 2    \* most data rows of a test file

NextPredict ==
    \/ \E columns \in TrainFiles : TrainDataUpload(columns)
    \/ \E config \in PageConfigs : TrainModelUpload(config)
    \/ StartTraining
    \/ TimerFire
    \/ TrainingSettles
    \/ DownloadTrainedModel
    \/ PredictModelUpload
    \/ \E columns \in TestFiles, rows \in 0..MaxRows : TestRowsUpload(columns, rows)
    \/ \E checked \in BOOLEAN : HasTargetColumnChange(checked)
    \/ MakePredictions

SpecPredict == InitPages /\ [][NextPredict]_vars

\* ------------------------------------------------------------------------
\* Properties
\* ------------------------------------------------------------------------
\* The epoch loop on its early-stopping locals alone, when the epochs'
\* metrics are losses[1], losses[2], ...: the number of epochs run
RECURSIVE epochsRun(_, _, _, _, _)
epochsRun(losses, patience, epoch, bestEarlyStoppingLoss, patienceCounter) ==
    IF ~loopContinues(epoch, Len(losses)) THEN epoch
    ELSE LET es == earlyStoppingStep(bestEarlyStoppingLoss, patienceCounter,
                                     losses[epoch + 1], patience)
         IN IF es.stop THEN epoch + 1
            ELSE epochsRun(losses, patience, epoch + 1,
                           es.bestEarlyStoppingLoss, es.patienceCounter)

\* The train() call has recorded at least the argument checks' outcome
Called == call.pc # "idle"
\* The number of epochs recorded so far
Recorded == Len(call.history.loss)
\* The metric early stopping looks at for recorded epoch i
MetricAt(i) ==
    IF call.xVal.isArray /\ call.yVal.isArray /\ Len(call.xVal.items) > 0
    THEN call.history.valLoss[i] ELSE call.history.loss[i]
\* Epoch i's metric is strictly lower than every metric before it
Improves(i) ==
    /\ MetricAt(i) # NaN /\ MetricAt(i) < Infinity
    /\ \A j \in 1..(i - 1) : MetricAt(j) = NaN \/ MetricAt(i) < MetricAt(j)
\* The lowest metric among the first k epochs
BestSeen(k) ==
    IF \E i \in 1..k : Improves(i)
    THEN MetricAt(CHOOSE i \in 1..k : Improves(i) /\ \A j \in 1..k : Improves(j) => j <= i)
    ELSE Infinity
\* The number of epochs since the last improvement, after k epochs
StaleCount(k) ==
    IF \E i \in 1..k : Improves(i)
    THEN k - (CHOOSE i \in 1..k : Improves(i) /\ \A j \in 1..k : Improves(j) => j <= i)
    ELSE k
\* The arguments pass the checks the contract names
ArgsWellFormed ==
    /\ call.xTrain.isArray /\ call.yTrain.isArray
    /\ Len(call.xTrain.items) > 0 /\ Len(call.yTrain.items) > 0
    /\ Len(call.xTrain.items) = Len(call.yTrain.items)
\* Some training or validation sample is not an array
SomeSampleMalformed ==
    \/ \E i \in 1..Len(call.xTrain.items) : ~call.xTrain.items[i].isArray
    \/ \E i \in 1..Len(call.xVal.items) : ~call.xVal.items[i].isArray
\* Every layer of network n has at least one unit
PositiveUnits(n) == \A i \in 1..Len(nets[n].layers) : nets[n].layers[i].units > 0
\* The call is on a network of positive unit counts, and every sample that
\* is an array is as long as the input layer is wide
ProperCall ==
    /\ Called /\ PositiveUnits(call.net)
    /\ \A i \in 1..Len(call.xTrain.items) :
          call.xTrain.items[i].isArray =>
              Len(call.xTrain.items[i].v) = nets[call.net].layers[1].units
    /\ \A i \in 1..Len(call.xVal.items) :
          call.xVal.items[i].isArray =>
              Len(call.xVal.items[i].v) = nets[call.net].layers[1].units
\* The network's arrays and optimizer state are those it had at the call
StateAsBefore ==
    /\ heap[nets[call.net].weights] = call.before.weights
    /\ heap[nets[call.net].biases] = call.before.biases
    /\ nets[call.net].optimizerState = call.before.optimizerState

\* C1: with early stopping enabled, train() holds the lowest metric seen so
\* far (valLoss with a non-empty validation set, else the training loss)
\* and the number of epochs since it last improved; the loop is left at the
\* first epoch at which that number reaches patience, and never before;
\* the losses 0.5, 0.4, 0.45, 0.46, 0.47 (here in hundredths) with patience
\* 2 give exactly 4 epochs.
C1_EarlyStopping ==
    /\ epochsRun(<<50, 40, 45, 46, 47>>, 2, 0, Infinity, 0) = 4
    /\ (call.config.earlyStopping /\ call.pc \in {"callback", "yield", "done"}) =>
          /\ call.bestEarlyStoppingLoss = BestSeen(Recorded)
          /\ call.patienceCounter = StaleCount(Recorded)
          /\ \A k \in 1..(Recorded - 1) : StaleCount(k) < call.config.patience
          /\ StaleCount(Recorded) >= call.config.patience => call.pc = "done"
          /\ call.pc = "done" =>
                \/ StaleCount(Recorded) >= call.config.patience
                \/ Recorded = call.config.epochs

\* A run of patience 2 that improved, reset the counter, and was then stopped
\* by two stale epochs
C1_Witness ==
    /\ call.config.earlyStopping /\ call.config.patience = 2
    /\ call.pc = "done" /\ Recorded = 3
    /\ call.patienceCounter = 2
    /\ call.bestEarlyStoppingLoss = MetricAt(1)

\* C2: without early stopping a train() call with valid inputs records
\* exactly `epochs` epochs and returns the history; it does not throw; the
\* loop is left only when the epochs are exhausted or early stopping fires.
C2_RunsAllEpochs ==
    /\ (call.pc = "done" /\ ~call.config.earlyStopping) =>
          Recorded = call.config.epochs
    /\ call.pc = "done" =>
          \/ Recorded = call.config.epochs
          \/ call.config.earlyStopping /\ call.patienceCounter >= call.config.patience
    /\ call.pc \in {"callback", "yield"} => Recorded = call.epoch + 1
    /\ Called => Recorded <= call.config.epochs
    /\ (call.pc = "threw" /\ ArgsWellFormed) => SomeSampleMalformed

\* One sample, one epoch, batchSize 1 on a network with a hidden relu layer
\* and a sigmoid output: returned with one history entry
C2_Witness ==
    /\ call.pc = "done" /\ ~call.config.earlyStopping
    /\ call.config.epochs = 1 /\ call.config.batchSize = 1
    /\ Len(call.xTrain.items) = 1
    /\ Len(nets[call.net].layers) = 3
    /\ nets[call.net].layers[3].activation = "sigmoid"
    /\ Recorded = 1 /\ call.history.loss[1] # NaN

\* C3: when train() has returned, a supplied onEpochEnd callback has been
\* invoked once for every record of the history, with that record.
C3_CallbackPerRecord ==
    (ProperCall /\ call.pc = "done" /\ call.config.onEpochEnd # "none") =>
        /\ Len(cbLog) = Recorded
        /\ \A i \in 1..Len(cbLog) :
              cbLog[i] = [epoch |-> i, loss |-> call.history.loss[i],
                          accuracy |-> call.history.accuracy[i],
                          valLoss |-> call.history.valLoss[i],
                          valAccuracy |-> call.history.valAccuracy[i]]

\* A correctly shaped argument of predict() for network n
ShapeFits(n, x) ==
    \A i \in 1..Len(x.items) :
        /\ x.items[i].isArray
        /\ Len(x.items[i].v) = nets[n].layers[1].units

\* C4: for a fresh or trained network n and a correctly shaped x (one
\* vector or a batch), load(n.save()).predict(x) returns exactly what
\* n.predict(x) returns, and the loaded network has n's layers, weights
\* and biases.
C4_RoundTrip ==
    (out.op = "loadSavedPredict" /\ ShapeFits(out.net, out.x)) =>
        /\ ~out.result.threw
        /\ out.loaded = out.result
        /\ out.same

\* The round trip on a batch, for a network a train() call has returned on
C4_Witness ==
    /\ out.op = "loadSavedPredict" /\ ShapeFits(out.net, out.x)
    /\ out.x.batch /\ Len(out.result.outs) = 2
    /\ call.pc = "done" /\ call.net = out.net /\ Recorded = 2
    /\ heap[nets[out.net].weights] # call.before.weights

\* C5: every network object, constructed or loaded, before, during and
\* after training, has one weight matrix and one bias vector per layer
\* transition; matrix i has units(i+1) rows of units(i) entries and bias
\* vector i has units(i+1) entries.
C5_Shapes ==
    \A n \in 1..Len(nets) :
        LET W == heap[nets[n].weights]
            B == heap[nets[n].biases]
            layers == nets[n].layers
        IN /\ Len(W) = Len(layers) - 1
           /\ Len(B) = Len(layers) - 1
           /\ \A i \in 1..Len(W) :
                 /\ Len(W[i]) = layers[i + 1].units
                 /\ Len(B[i]) = layers[i + 1].units
                 /\ \A j \in 1..Len(W[i]) : Len(W[i][j]) = layers[i].units

\* A loaded network next to the constructed one, two inputs wide, after a
\* train() call that changed the weights
C5_Witness ==
    /\ Len(nets) = 2
    /\ nets[2].layers[1].units = 2
    /\ call.pc = "done" /\ call.net = 2
    /\ heap[nets[2].weights] # call.before.weights

\* C6: no network with a layer of zero or fewer units is ever produced
\* (the constructor fails instead).
C6_NoNonPositiveLayer ==
    \A n \in 1..Len(nets) :
        \A i \in 1..Len(nets[n].layers) : nets[n].layers[i].units > 0

\* C7: forward(input) and forwardWithCache(input) never return an output
\* for an array whose length differs from the input layer's unit count.
C7_ForwardRejectsLength ==
    (/\ out.op \in {"forward", "forwardWithCache"}
     /\ PositiveUnits(out.net)
     /\ out.x.items[1].isArray
     /\ Len(out.x.items[1].v) # nets[out.net].layers[1].units) =>
        out.result.threw

\* C8: a train() call whose features or labels are not arrays, are empty
\* or differ in length throws before any epoch: nothing is recorded, no
\* callback runs, no timer is set, the network is untouched; a call with
\* non-empty arrays of equal length enters the epoch loop.
C8_TrainChecksArguments ==
    Called =>
        /\ ~ArgsWellFormed =>
              /\ call.pc = "threw"
              /\ call.history = NoHistory /\ cbLog = <<>> /\ timersFired = 0
              /\ StateAsBefore
        /\ ArgsWellFormed =>
              \/ call.pc \in {"callback", "yield"} /\ Recorded >= 1
              \/ call.pc = "done"
              \/ call.pc = "threw" /\ SomeSampleMalformed

\* Two features against one label: thrown
C8_Witness ==
    /\ call.pc = "threw"
    /\ call.xTrain.isArray /\ call.yTrain.isArray
    /\ Len(call.xTrain.items) = 2 /\ Len(call.yTrain.items) = 1

\* C9: when train() throws, at whichever point, the network's weights,
\* biases and optimizer state are what they were before the call.
C9_NoPartialMutation == (ProperCall /\ call.pc = "threw") => StateAsBefore

\* C10: within a train() call the epochs are strictly sequential: an epoch
\* after the first begins only in the step in which the timer set after the
\* previous epoch fires, and by then every callback invoked has completed;
\* the callbacks are invoked in increasing epoch order, one at a time.
C10_StrictlySequential ==
    /\ [](/\ \A i \in 1..Len(cbLog) : cbLog[i].epoch = i
          /\ cbSettled <= Len(cbLog) /\ Len(cbLog) <= cbSettled + 1
          /\ call.pc = "callback" <=> cbSettled < Len(cbLog)
          /\ call.pc \in {"callback", "yield"} => timersFired = Recorded - 1
          /\ timersFired <= Recorded)
    /\ [][(Called /\ (Len(call'.history.loss) > Recorded \/ call'.pc = "threw")) =>
             /\ call.pc = "yield"
             /\ cbSettled = Len(cbLog)
             /\ timersFired' = Recorded]_vars

\* The second epoch's asynchronous callback is pending: the first one has
\* completed and the first timer has fired
C10_Witness ==
    /\ call.pc = "callback" /\ call.config.onEpochEnd = "async"
    /\ Recorded = 2 /\ Len(cbLog) = 2 /\ cbSettled = 1 /\ timersFired = 1

\* The optimizer state a train() call finds is absent, or has step counter 0
\* and all-zero moments
FreshOptimizer(opt) ==
    \/ ~opt.present
    \/ /\ opt.t = 0
       /\ opt.mW = zerosLikeW(opt.mW) /\ opt.vW = zerosLikeW(opt.mW)
       /\ opt.mB = zerosLikeB(opt.mW) /\ opt.vB = zerosLikeB(opt.mW)

\* C11: while a train() call is suspended between two epochs, no step of
\* anything else changes the weights, the biases or the optimizer state
\* (step counter t and moments) of its network: the updates of a second
\* train() call on the same network do not interleave with its own.
C11_ExclusiveOwnership ==
    [][(ProperCall /\ call.pc \in {"callback", "yield"} /\ call' = call) =>
          /\ heap'[nets[call.net].weights] = heap[nets[call.net].weights]
          /\ heap'[nets[call.net].biases] = heap[nets[call.net].biases]
          /\ nets'[call.net].optimizerState = nets[call.net].optimizerState]_vars

\* C13: a network that no train() call has touched has no optimizer state,
\* and every train() call, the second one on a network included, starts
\* from an absent optimizer state or from step counter 0 and zero moments.
C13_FreshOptimizerPerCall ==
    /\ \A n \in 1..Len(nets) :
          (call.pc = "idle" \/ call.net # n) => ~nets[n].optimizerState.present
    /\ Called => FreshOptimizer(call.before.optimizerState)
    /\ (ProperCall /\ second.pc # "idle") => FreshOptimizer(second.before.optimizerState)

\* The number of batches of n samples at batch size b: ceil(n / b)
BatchesOf(n, b) == (n + b - 1) \div b

\* The gradients of the whole training set on the arrays the call found,
\* summed in the order of the set
FirstBatchSums ==
    batchFrom(call.before.weights, call.before.biases, nets[call.net].layers,
              nets[call.net].config, call.config, call.xTrain.items, call.yTrain.items,
              [threw |-> FALSE, j |-> 1, batchLoss |-> 0, batchAccuracy |-> 0,
               gradWeights |-> zerosLikeW(call.before.weights),
               gradBiases |-> zerosLikeB(call.before.weights)])

\* One Adam step on the arrays the call found, with the gradients of the
\* whole training set divided by its number of samples
FirstBatchUpdate ==
    applyAdamUpdate(call.before.weights, call.before.biases,
                    call.before.optimizerState,
                    FirstBatchSums.gradWeights, FirstBatchSums.gradBiases,
                    call.config.learningRate,
                    RoundDiv(One, Len(call.xTrain.items)),
                    call.config.adamBeta1, call.config.adamBeta2,
                    call.config.adamEpsilon)

\* C12: after E recorded epochs of a train() call on a new network with N
\* samples and batch size B the step counter t is E * ceil(N / B): one
\* applyAdamUpdate per batch, one increment per applyAdamUpdate.  After the
\* first epoch of a call whose samples fit one batch, the weights, biases
\* and moments are those of one Adam step with the summed gradients of the
\* samples divided by the number of samples actually in the batch.
C12_OneAdamStepPerBatch ==
    (call.pc \in {"callback", "yield", "done"}) =>
        /\ nets[call.net].optimizerState.t =
              Recorded * BatchesOf(Len(call.xTrain.items), call.config.batchSize)
        /\ nets[call.net].optimizerState.present <=> Recorded >= 1
        /\ (Recorded = 1 /\ Len(call.xTrain.items) <= call.config.batchSize) =>
              /\ heap[nets[call.net].weights] = FirstBatchUpdate.weights
              /\ heap[nets[call.net].biases] = FirstBatchUpdate.biases
              /\ nets[call.net].optimizerState = FirstBatchUpdate.optimizerState

\* Two epochs of two batches of one sample each: four steps
C12_Witness ==
    /\ call.pc = "done" /\ Recorded = 2
    /\ Len(call.xTrain.items) = 2 /\ call.config.batchSize = 1
    /\ PositiveUnits(call.net)
    /\ nets[call.net].optimizerState.t = 4

\* One sample at batch size 2: the batch holds one sample, and the step
\* divides by one
C12_WitnessShortBatch ==
    /\ call.pc = "done" /\ Recorded = 1
    /\ Len(call.xTrain.items) = 1 /\ call.config.batchSize = 2
    /\ PositiveUnits(call.net)
    /\ heap[nets[call.net].weights] # call.before.weights

\* The moments of the optimizer state are all zero (or not yet created)
ZeroMoments(opt) ==
    \/ ~opt.present
    \/ /\ opt.mW = zerosLikeW(opt.mW) /\ opt.vW = zerosLikeW(opt.mW)
       /\ opt.mB = zerosLikeB(opt.mW) /\ opt.vB = zerosLikeB(opt.mW)

\* C14: one applyAdamUpdate step with all-zero gradients, from zero moments
\* and with epsilon > 0, leaves every weight and bias as it was and every
\* moment zero; the step counter goes up by one.
C14_ZeroGradientStep ==
    (/\ out.op = "applyAdamUpdate"
     /\ out.args.grad = 0 /\ out.args.epsilon > 0
     /\ ZeroMoments(out.before.optimizerState)) =>
        /\ heap[nets[out.net].weights] = out.before.weights
        /\ heap[nets[out.net].biases] = out.before.biases
        /\ nets[out.net].optimizerState.present
        /\ ZeroMoments(nets[out.net].optimizerState)
        /\ nets[out.net].optimizerState.t = out.before.optimizerState.t + 1

\* A second zero-gradient step on a network with a hidden layer: the state
\* exists, its moments are zero, t goes from 1 to 2
C14_Witness ==
    /\ out.op = "applyAdamUpdate"
    /\ out.args.grad = 0 /\ out.args.epsilon > 0
    /\ out.before.optimizerState.present /\ ZeroMoments(out.before.optimizerState)
    /\ Len(nets[out.net].layers) = 3
    /\ nets[out.net].optimizerState.t = 2

\* The target of output unit i for the label y
TargetAt(y, i) == IF y.isArray THEN At(y.v, i) ELSE firstOf(y)

\* The label has one entry per output unit (a number for one unit)
LabelFits(n, y) ==
    IF y.isArray THEN Len(y.v) = nets[n].layers[Len(nets[n].layers)].units
    ELSE nets[n].layers[Len(nets[n].layers)].units = 1

SigmoidWithBCE(n, loss) ==
    /\ nets[n].layers[Len(nets[n].layers)].activation = "sigmoid"
    /\ \/ loss = "binaryCrossentropy"
       \/ nets[n].config.trainingConfig.loss = "binaryCrossentropy"

WeightsOf(n) == heap[nets[n].weights]
BiasesOf(n) == heap[nets[n].biases]

\* C16: forwardWithCache(input).output equals forward(input) for every
\* network state and input (both throw on an input that is not an array),
\* and neither call changes a network, a saved model or the shared arrays.
C16_ForwardsAgree ==
    [][(out.op = "none" /\ out'.op \in {"forward", "forwardWithCache"}) =>
          /\ heap' = heap /\ nets' = nets /\ snaps' = snaps
          /\ out'.result = forwardOutcome(forward(WeightsOf(out'.net),
                              BiasesOf(out'.net), nets[out'.net].layers,
                              out'.x.items[1]))
          /\ out'.result = cacheOutcome(forwardWithCache(WeightsOf(out'.net),
                              BiasesOf(out'.net), nets[out'.net].layers,
                              out'.x.items[1]))]_vars

\* forwardWithCache() has returned an output on a trained network with a
\* hidden layer whose output is not the pre-activation of the last layer
C16_Witness ==
    /\ out.op = "forwardWithCache" /\ ~out.result.threw
    /\ Len(nets[out.net].layers) = 3
    /\ nets[out.net].optimizerState.present
    /\ out.result.outs[1] =
          forward(WeightsOf(out.net), BiasesOf(out.net), nets[out.net].layers,
                  out.x.items[1]).value
    /\ out.result.outs[1] #
          layerZ(WeightsOf(out.net), BiasesOf(out.net), 2,
                 applyActivation(layerZ(WeightsOf(out.net), BiasesOf(out.net), 1,
                                        out.x.items[1].v),
                                 nets[out.net].layers[2].activation))

\* The units of the output layer of network n
OutputUnits(n) == nets[n].layers[Len(nets[n].layers)].units

\* forward(sample) on network n as it is now
ForwardNow(n, sample) == forward(WeightsOf(n), BiasesOf(n), nets[n].layers, sample)

\* C17: predict(x) on a batch (x[0] is an array) returns one output per
\* sample, in input order, each equal to forward(sample) and as long as the
\* output layer has units, and throws when forward() throws on a sample;
\* on anything else it returns, or throws, what forward(x) does.
C17_PredictDispatch ==
    (out.op = "predict") =>
        IF out.x.batch
        THEN /\ out.result.threw <=>
                   \E i \in 1..Len(out.x.items) : ForwardNow(out.net, out.x.items[i]).threw
             /\ ~out.result.threw =>
                   /\ out.result.batch
                   /\ Len(out.result.outs) = Len(out.x.items)
                   /\ \A i \in 1..Len(out.x.items) :
                         /\ out.result.outs[i] = ForwardNow(out.net, out.x.items[i]).value
                         /\ Len(out.result.outs[i]) = OutputUnits(out.net)
        ELSE out.result = forwardOutcome(ForwardNow(out.net, out.x.items[1]))

\* predict() on a batch of two samples has returned two different outputs
\* on a trained network
C17_Witness ==
    /\ out.op = "predict" /\ out.x.batch /\ ~out.result.threw
    /\ Len(out.x.items) = 2 /\ Len(out.result.outs) = 2
    /\ nets[out.net].optimizerState.present
    /\ OutputUnits(out.net) = 1
    /\ Len(out.result.outs[1]) = 1
    /\ out.result.outs[1] # out.result.outs[2]

\* An inference call or save() is made in this step
InferenceStep ==
    \/ out.op = "none" /\ out'.op \in {"forward", "forwardWithCache", "predict",
                                        "loadSavedPredict"}
    \/ Len(snaps') > Len(snaps)

\* The arrays network n points to differ after this step
ArraysChange(n) ==
    \/ heap'[nets'[n].weights] # heap[nets[n].weights]
    \/ heap'[nets'[n].biases] # heap[nets[n].biases]

\* C18: forward, forwardWithCache, predict and save leave the weights,
\* biases, layers, config and optimizerState of every network unchanged;
\* whenever the weights or biases of a network change, the step is one of a
\* train() call that applied an optimizer update to these arrays.
C18_InferenceReadOnly ==
    [][/\ InferenceStep => (heap' = heap /\ nets' = nets)
       /\ \A n \in 1..Len(nets) :
             ArraysChange(n) =>
                /\ call' # call
                /\ nets[n].weights = nets[call'.net].weights
                /\ nets[n].biases = nets[call'.net].biases
                /\ nets'[call'.net].optimizerState.t
                      > nets[call'.net].optimizerState.t]_vars

\* predict() has returned on a trained network of which a saved model
\* exists
C18_Witness ==
    /\ out.op = "predict" /\ ~out.result.threw
    /\ nets[out.net].optimizerState.present
    /\ Len(snaps) = 1
    /\ snaps[1].weights = nets[out.net].weights

\* The loss and accuracy of forward() on validation sample i, on the
\* network as it is now
ValLossAt(i) ==
    calculateLoss(nets[call.net].config, labelAt(call.yVal.items, i),
                  ForwardNow(call.net, call.xVal.items[i]).value)
ValAccuracyAt(i) ==
    calculateAccuracy(labelAt(call.yVal.items, i),
                      ForwardNow(call.net, call.xVal.items[i]).value)

\* Their sums over the validation samples 1..n
RECURSIVE ValLossSum(_)
ValLossSum(n) == IF n = 0 THEN 0 ELSE NAdd(ValLossSum(n - 1), ValLossAt(n))
RECURSIVE ValAccuracySum(_)
ValAccuracySum(n) == IF n = 0 THEN 0 ELSE NAdd(ValAccuracySum(n - 1), ValAccuracyAt(n))

\* A non-empty validation set was given to the call
ValidationGiven ==
    call.xVal.isArray /\ call.yVal.isArray /\ Len(call.xVal.items) >= 1

\* C19: after every epoch, with a non-empty validation set the epoch's
\* valLoss and valAccuracy are the means of the loss and the accuracy of
\* forward() over the validation samples on the network as the epoch's
\* updates left it; without a validation set, or with an empty one, every
\* epoch's valLoss and valAccuracy are null.
C19_ValidationMetrics ==
    (ProperCall /\ call.pc \in {"callback", "yield", "done"} /\ Recorded >= 1) =>
        /\ Len(call.history.valLoss) = Recorded
        /\ Len(call.history.valAccuracy) = Recorded
        /\ IF ValidationGiven
           THEN /\ call.history.valLoss[Recorded] =
                      NDivCount(ValLossSum(Len(call.xVal.items)), Len(call.xVal.items))
                /\ call.history.valAccuracy[Recorded] =
                      NDivCount(ValAccuracySum(Len(call.xVal.items)),
                                Len(call.xVal.items))
                /\ \A i \in 1..Recorded : call.history.valLoss[i] # Null
                /\ \A i \in 1..Recorded : call.history.valAccuracy[i] # Null
           ELSE \A i \in 1..Recorded :
                   /\ call.history.valLoss[i] = Null
                   /\ call.history.valAccuracy[i] = Null

\* Two epochs on a validation set of two samples whose losses differ, with
\* weights that the epochs changed and validation losses that differ
C19_Witness ==
    /\ ProperCall /\ call.pc = "done" /\ Recorded = 2
    /\ Len(call.xVal.items) = 2
    /\ ValLossAt(1) # ValLossAt(2)
    /\ call.history.valLoss[1] # call.history.valLoss[2]
    /\ call.history.valLoss[2] = NDivCount(NAdd(ValLossAt(1), ValLossAt(2)), 2)
    /\ heap[nets[call.net].weights] # call.before.weights

\* A run without a validation set argument has recorded null twice
C19_WitnessNull ==
    /\ ProperCall /\ call.pc = "done" /\ Recorded = 2
    /\ ~call.xVal.isArray
    /\ call.history.valLoss = <<Null, Null>>
    /\ call.history.valAccuracy = <<Null, Null>>

\* The model file carries the feature keys its network was trained on
FileCarriesPreprocessing ==
    pages.file.present =>
        /\ preprocessingOf(pages.file.config).given
        /\ preprocessingOf(pages.file.config).hasKeys
        /\ preprocessingOf(pages.file.config).featureKeys = pages.file.trainedOn

\* The Predict page builds its feature rows from the feature keys the
\* model was trained on, in their order
PredictUsesTrainingKeys ==
    pages.predict.predictions.made =>
        pages.predict.predictions.featureKeys = pages.predict.trainedOn

\* C20: a model trained on the Train page and downloaded carries the
\* feature order of its training in its config, and the Predict page builds
\* the rows it gives to predict() with exactly that feature order (the
\* Train page scales nothing, so there is no scaling to carry).
C20_PreprocessingCarried ==
    /\ FileCarriesPreprocessing
    /\ PredictUsesTrainingKeys

\* The same for test files that have the columns the model was trained on:
\* the rows given to predict() hold the cells of the training columns
C20_PredictFeedsTrainingColumns ==
    (/\ pages.predict.predictions.made
     /\ \A i \in 1..Len(pages.predict.trainedOn) :
           includes(pages.predict.testData, pages.predict.trainedOn[i])) =>
        pages.predict.predictions.features =
            <<featureRow(pages.predict.testData, pages.predict.trainedOn)>>

\* A model trained on column f1 of a file whose first column pid was
\* excluded as the id column is given the pid cell of the test row
C20_IdColumnFedAsFeature ==
    /\ pages.train.data = <<"pid", "f1", "label">> /\ pages.train.hasIdColumn
    /\ pages.predict.trainedOn = <<"f1">>
    /\ ~preprocessingOf(nets[pages.predict.trainedModel].config).given
    /\ pages.predict.testData = <<"pid", "f1">>
    /\ pages.predict.predictions.made
    /\ pages.predict.predictions.featureKeys = <<"pid", "f1">>
    /\ pages.predict.predictions.features = <<<<cellNumber("pid")>>>>

\* The concatenation of the sequences of batches
RECURSIVE Flatten(_)
Flatten(batches) ==
    IF Len(batches) = 0 THEN <<>> ELSE Head(batches) \o Flatten(Tail(batches))

\* s holds each of 1..n exactly once
IsPermutation(s, n) ==
    /\ Len(s) = n
    /\ \A k \in 1..n : Cardinality({i \in 1..n : s[i] = k}) = 1

\* C21: in every epoch the shuffled indices are a permutation of the
\* indices, the argument of shuffleArray is left as it was, the batches are
\* the shuffled indices cut in order (so every sample is in exactly one
\* batch), there are ceil(N/batchSize) of them, none is empty and all but
\* the last hold batchSize indices.
C21_Batching ==
    (out.op = "epochBatches") =>
        /\ IsPermutation(out.shuffled, out.n)
        /\ out.indices = indicesOf(out.n)
        /\ Flatten(out.batches) = out.shuffled
        /\ Len(out.batches) = BatchesOf(out.n, out.batchSize)
        /\ \A b \in 1..Len(out.batches) :
              /\ Len(out.batches[b]) >= 1
              /\ b < Len(out.batches) => Len(out.batches[b]) = out.batchSize
              /\ Len(out.batches[b]) <= out.batchSize

\* A second epoch on four samples in batches of three whose shuffle differs
\* from the first epoch's and from the indices in order: a full batch and a
\* batch of one
C21_Witness ==
    /\ out.op = "epochBatches" /\ out.epoch = 2
    /\ out.n = 4 /\ out.batchSize = 3
    /\ out.changed
    /\ out.shuffled # indicesOf(4)
    /\ Len(out.batches) = 2
    /\ Len(out.batches[1]) = 3 /\ Len(out.batches[2]) = 1

\* Sequence s is sequence r with at most one entry appended
GrownByAtMostOne(r, s) ==
    \/ s = r
    \/ Len(s) = Len(r) + 1 /\ SubSeq(s, 1, Len(r)) = r

\* The arguments of the call, after the step, pass the checks of train()
ArgsWellFormedNext ==
    /\ call'.xTrain.isArray /\ call'.yTrain.isArray
    /\ Len(call'.xTrain.items) > 0
    /\ Len(call'.xTrain.items) = Len(call'.yTrain.items)

\* C22: at every point of a train() call the four sequences of the history
\* are equally long, as long as the number of epochs completed; a step
\* appends at most one entry to each, all four together, and leaves the
\* earlier entries as they were.
C22_HistoryAppendOnly ==
    [][/\ Len(call'.history.loss) = Len(call'.history.accuracy)
       /\ Len(call'.history.loss) = Len(call'.history.valLoss)
       /\ Len(call'.history.loss) = Len(call'.history.valAccuracy)
       /\ GrownByAtMostOne(call.history.loss, call'.history.loss)
       /\ GrownByAtMostOne(call.history.accuracy, call'.history.accuracy)
       /\ GrownByAtMostOne(call.history.valLoss, call'.history.valLoss)
       /\ GrownByAtMostOne(call.history.valAccuracy, call'.history.valAccuracy)
       /\ (call'.pc # "idle" /\ ArgsWellFormedNext) =>
             Len(call'.history.loss) =
                IF call'.pc \in {"callback", "yield"} THEN call'.epoch + 1
                ELSE IF call'.pc = "done" /\ call'.epoch < call'.config.epochs
                     THEN call'.epoch + 1
                ELSE call'.epoch]_vars

\* Three epochs with a validation set are recorded, with training losses
\* that differ
C22_Witness ==
    /\ call.pc = "done" /\ Recorded = 3
    /\ Len(call.history.valLoss) = 3 /\ Len(call.history.valAccuracy) = 3
    /\ Len(call.history.accuracy) = 3
    /\ call.history.valLoss[3] # Null
    /\ call.history.loss[1] # call.history.loss[3]

\* Some training label of the call is NaN
SomeLabelNaN ==
    \E i \in 1..Len(call.yTrain.items) : IsNaN(firstOf(call.yTrain.items[i]))

\* C23: a train() call on a training set with a NaN label (every sample an
\* array, early stopping off) does not throw; every epoch it has begun is
\* recorded in the history after all ceil(N/batchSize) batches of the
\* epoch got their optimizer step, and it returns after `epochs` epochs.
C23_AnomalyNotFatal ==
    (ProperCall /\ SomeLabelNaN /\ ~SomeSampleMalformed /\ ~call.config.earlyStopping) =>
        /\ call.pc # "threw"
        /\ Len(call.history.loss) =
              IF call.pc = "done" THEN Max2(call.config.epochs, 0) ELSE call.epoch + 1
        /\ nets[call.net].optimizerState.t =
              Recorded * BatchesOf(Len(call.xTrain.items), call.config.batchSize)

\* A run of two epochs in batches of one whose first sample has a NaN
\* label has returned: two epochs recorded with NaN loss, four optimizer
\* steps
C23_Witness ==
    /\ ProperCall /\ call.pc = "done"
    /\ IsNaN(firstOf(call.yTrain.items[1])) /\ ~IsNaN(firstOf(call.yTrain.items[2]))
    /\ call.config.epochs = 2 /\ call.config.batchSize = 1
    /\ Recorded = 2
    /\ IsNaN(call.history.loss[1]) /\ IsNaN(call.history.loss[2])
    /\ nets[call.net].optimizerState.t = 4

\* C24: a step that trains a network leaves the weights and biases
\* recorded in every object save() has returned as they were, and a step
\* that trains one network leaves the weights and biases of every other
\* network (the one a snapshot was taken from, the one loaded from it) as
\* they were.
C24_SnapshotIsolation ==
    [][(call' # call) =>
          /\ \A s \in 1..Len(snaps) :
                /\ heap'[snaps[s].weights] = heap[snaps[s].weights]
                /\ heap'[snaps[s].biases] = heap[snaps[s].biases]
          /\ \A n \in 1..Len(nets) :
                (call'.pc # "idle" /\ n # call'.net) =>
                    /\ heap'[nets[n].weights] = heap[nets[n].weights]
                    /\ heap'[nets[n].biases] = heap[nets[n].biases]]_vars

\* The first half alone: what save() returned keeps its weights and biases
\* while the network is trained
C24_SavedArraysKept ==
    [][(call' # call) =>
          \A s \in 1..Len(snaps) :
             /\ heap'[snaps[s].weights] = heap[snaps[s].weights]
             /\ heap'[snaps[s].biases] = heap[snaps[s].biases]]_vars

\* The second half alone: training a network loaded from a snapshot leaves
\* the network the snapshot was taken from as it was
C24_LoadedTrainedAlone ==
    [][(call' # call /\ call'.pc # "idle" /\ call'.net = 2) =>
          /\ heap'[nets[1].weights] = heap[nets[1].weights]
          /\ heap'[nets[1].biases] = heap[nets[1].biases]]_vars

\* The rows of the last weight matrix and the biases that feed the output
\* units 1 and above (counted from 0) are those the network had when
\* train() was called
LaterUnitsAsBefore ==
    \A r \in 2..OutputUnits(call.net) :
        /\ WeightsOf(call.net)[Len(WeightsOf(call.net))][r] =
              call.before.weights[Len(call.before.weights)][r]
        /\ BiasesOf(call.net)[Len(BiasesOf(call.net))][r] =
              call.before.biases[Len(call.before.biases)][r]

\* Every training label of the call holds numbers only
LabelsNumeric ==
    \A i \in 1..Len(call.yTrain.items) :
        \A k \in 1..Len(call.yTrain.items[i].v) : ~IsNaN(call.yTrain.items[i].v[k])

\* C25 (as stated): with a sigmoid output and binaryCrossentropy, the
\* weights and biases feeding the output units 1 and above keep their
\* initial values through the whole training run.
C25_LaterUnitsNeverTrained ==
    (Called /\ SigmoidWithBCE(call.net, call.config.loss)) => LaterUnitsAsBefore

\* C25 (amended): the same for a run with adamEpsilon > 0 on features and
\* labels that are numbers.
C25_LaterUnitsNeverTrainedNumeric ==
    (/\ Called /\ SigmoidWithBCE(call.net, call.config.loss)
     /\ call.config.adamEpsilon > 0 /\ LabelsNumeric) => LaterUnitsAsBefore

\* Two epochs in batches of one on a two-output sigmoid network with
\* binaryCrossentropy behind a hidden layer have changed the row of output
\* unit 0 and left that of output unit 1
C25_Witness ==
    /\ Called /\ call.pc = "done" /\ Recorded = 2
    /\ SigmoidWithBCE(call.net, call.config.loss)
    /\ OutputUnits(call.net) = 2 /\ Len(nets[call.net].layers) = 3
    /\ call.config.adamEpsilon > 0 /\ LabelsNumeric
    /\ nets[call.net].optimizerState.t = 4
    /\ WeightsOf(call.net)[2][1] # call.before.weights[2][1]
    /\ WeightsOf(call.net)[2][2] = call.before.weights[2][2]
    /\ BiasesOf(call.net)[2][2] = call.before.biases[2][2]

\* The call in progress has a non-empty training set of as many array
\* samples as labels and a batch size of at least 1
TermArgs ==
    /\ call.pc # "idle" /\ ArgsWellFormed
    /\ \A i \in 1..Len(call.xTrain.items) : call.xTrain.items[i].isArray
    /\ call.config.batchSize >= 1
\* The network of the call is as it was when train() was called
AsBeforeCall ==
    /\ heap[nets[call.net].weights] = call.before.weights
    /\ heap[nets[call.net].biases] = call.before.biases
    /\ nets[call.net].optimizerState = call.before.optimizerState
\* C26: on a non-empty equal-length training set with a batch size of at
\* least 1 and a callback that completes, train() eventually returns, and
\* the history it returns has at most `epochs` entries (none when epochs is
\* 0 or negative: then no epoch runs and nothing changes).
C26_TrainTerminates ==
    /\ [](TermArgs => Len(call.history.loss) <= Max2(call.config.epochs, 0))
    /\ [](TermArgs /\ call.config.epochs <= 0 =>
            /\ call.pc = "done" /\ call.history = NoHistory /\ AsBeforeCall
            /\ cbLog = <<>> /\ timersFired = 0)
    /\ TermArgs ~> (call.pc = "done")
C26_Witness ==
    /\ TermArgs /\ call.pc = "done" /\ call.config.onEpochEnd = "async"
    /\ call.config.epochs = MaxEpochs /\ Len(call.history.loss) = MaxEpochs
    /\ call.config.batchSize > Len(call.xTrain.items)
    /\ cbSettled = MaxEpochs
\* A call with a negative number of epochs has returned
C26_WitnessNegative ==
    TermArgs /\ call.pc = "done" /\ call.config.epochs < 0

\* C27: whatever is typed into the configuration inputs, every train() call
\* startTraining() issued received epochs >= 1, batchSize >= 1 and
\* patience >= 1, and none of the calls is in a loop that never ends.
C27_PageConfigValid ==
    \A i \in 1..Len(pages.runs) :
        /\ pages.runs[i].config.epochs >= 1
        /\ pages.runs[i].config.batchSize >= 1
        /\ pages.runs[i].config.patience >= 1
        /\ pages.runs[i].pc # "batches"
\* The part of C27 on termination alone: no train() call of the page is in
\* a batch loop that never ends
C27_PageRunNeverBlocked == ~Blocked

\* The train() calls of the page that are suspended between two epochs
RunsInProgress == {i \in 1..Len(pages.runs) : pages.runs[i].pc = "yield"}
\* trainingProgress.history holds records of one run, in the order of
\* their epochs
HistoryOfOneRun ==
    /\ \A j, k \in 1..Len(pages.train.history) :
          pages.train.history[j].run = pages.train.history[k].run
    /\ \A j, k \in 1..Len(pages.train.history) :
          j < k => pages.train.history[j].epoch < pages.train.history[k].epoch
\* C28: at most one training run is in progress; trainingProgress.history
\* holds the records of a single run with strictly increasing epoch
\* numbers; isTraining is true exactly while a run is in progress;
\* trainedModel, once set, is the network of the most recently started run.
C28_OneRunAtATime ==
    /\ Cardinality(RunsInProgress) <= 1
    /\ HistoryOfOneRun
    /\ pages.train.isTraining <=> RunsInProgress # {}
    /\ pages.train.trainedModel # 0 =>
          pages.train.trainedModel = pages.runs[Len(pages.runs)].net
\* The parts of C28 one by one
C28_HistoryOfOneRun == HistoryOfOneRun
C28_IsTrainingWhileRunning == pages.train.isTraining <=> RunsInProgress # {}
C28_TrainedModelIsLatest ==
    pages.train.trainedModel # 0 =>
        pages.train.trainedModel = pages.runs[Len(pages.runs)].net

\* C29: after resetTraining() and until the next startTraining() call,
\* trainedModel is null, trainingProgress.history is empty and the
\* training-complete card is hidden, also when Reset was clicked while a
\* run was suspended between two epochs.
C29_ResetStays ==
    pages.train.afterReset =>
        /\ pages.train.trainedModel = 0
        /\ pages.train.history = <<>>
        /\ ~pages.train.complete
\* The parts of C29 one by one
C29_ResetKeepsModelNull == pages.train.afterReset => pages.train.trainedModel = 0
C29_ResetKeepsHistoryEmpty == pages.train.afterReset => pages.train.history = <<>>
C29_ResetKeepsCardHidden == pages.train.afterReset => ~pages.train.complete

\* C30: every feature vector makePredictions() passes to predict() is as
\* long as the loaded model's inputLayer.units, there are as many results
\* as test rows, and a result's predictedClass is 'Class 1' exactly when its
\* prediction value is above 0.5.
C30_PredictionsWellFormed ==
    (pages.predict.predictions.made /\ ~pages.predict.predictions.result.threw) =>
        /\ \A r \in 1..Len(pages.predict.predictions.features) :
              Len(pages.predict.predictions.features[r]) =
                 nets[pages.predict.trainedModel].config.architecture.inputLayer.units
        /\ Len(pages.predict.predictions.features) = pages.predict.rows
        /\ Len(pages.predict.predictions.results) = pages.predict.rows
        /\ \A r \in 1..Len(pages.predict.predictions.results) :
              /\ pages.predict.predictions.results[r].predictedClass = "Class 1"
                   <=> pages.predict.predictions.results[r].prediction > Half
              /\ pages.predict.predictions.results[r].prediction =
                   predValOf(At(pages.predict.predictions.result.outs[r], 1))
\* Predictions for several rows that were padded to the two input units
C30_Witness ==
    /\ pages.predict.predictions.made /\ ~pages.predict.predictions.result.threw
    /\ pages.predict.rows = MaxRows
    /\ Len(pages.predict.predictions.featureKeys) = 1
    /\ nets[pages.predict.trainedModel].config.architecture.inputLayer.units = 2
    /\ Len(pages.predict.predictions.results) = MaxRows
\* Predictions for rows that were trimmed to the one input unit
C30_WitnessTrimmed ==
    /\ pages.predict.predictions.made /\ pages.predict.rows > 0
    /\ Len(pages.predict.predictions.featureKeys) = 2
    /\ nets[pages.predict.trainedModel].config.architecture.inputLayer.units = 1
C30_WitnessClassOne ==
    /\ pages.predict.predictions.made
    /\ \E r \in 1..Len(pages.predict.predictions.results) :
          pages.predict.predictions.results[r].predictedClass = "Class 1"
C30_WitnessClassZero ==
    /\ pages.predict.predictions.made
    /\ \E r \in 1..Len(pages.predict.predictions.results) :
          pages.predict.predictions.results[r].predictedClass = "Class 0"
C30_WitnessNoRows ==
    pages.predict.predictions.made /\ pages.predict.rows = 0

====
